---- MODULE Spec2Model ----
(***************************************************************************)
(* Round-based MuSig2 signing: the three protocol rounds (rounds.rs), the  *)
(* asynchronous executor (async_protocol.rs) and the lock-step simulation  *)
(* executor (sim/simulation.rs), driven over one state machine per party.  *)
(*                                                                         *)
(* The curve arithmetic and the signature primitives (signature.rs), the   *)
(* message store (broadcast.rs / store.rs) and the state-machine wrapper   *)
(* around the rounds (musig2_instance.rs) are not among the source files;  *)
(* they are modelled from the design document (spec.md, sections 3 to 7).  *)
(***************************************************************************)
EXTENDS Integers, Sequences, FiniteSets, TLC

(***************************************************************************)
(* Bounds of the model.                                                    *)
(***************************************************************************)
MaxN == 3
Timeout == 1
MaxRuns == 2
MaxFaults == 1

Parties == 1..MaxN

(***************************************************************************)
(* Option<T>: None is the empty tuple, Some(x) the one-element tuple.      *)
(***************************************************************************)
None == <<>>
Some(x) == <<x>>
IsSome(o) == Len(o) = 1
IsNone(o) == Len(o) = 0
Unwrap(o) == o[1]

(***************************************************************************)
(* The group.  A prime-order subgroup of Z_P^* stands for the curve: a     *)
(* point is a power of Gen, a scalar is an exponent modulo Q, point        *)
(* addition is multiplication modulo P.                                    *)
(***************************************************************************)
P == 23
Q == 11
Gen == 2

RECURSIVE GPow(_, _)
GPow(b, e) ==
    IF e = 0 THEN 1 ELSE (b * GPow(b, e - 1)) % P

ScalarMul(pt, k) == GPow(pt, k % Q)
BasePoint(k) == GPow(Gen, k % Q)
PointAdd(a, b) == (a * b) % P
PointNeg(a) == GPow(a, Q - 1)
PointSub(a, b) == PointAdd(a, PointNeg(b))

\* The x coordinate of a point: a point and its negation share it.
x_coor(pt) ==
    IF pt <= PointNeg(pt) THEN pt ELSE PointNeg(pt)

\* KeyPair::create: a private scalar and its public point.
KeyPair(x) == [private_key |-> x, public_key |-> BasePoint(x)]

(***************************************************************************)
(* Hashing to a scalar: an order-sensitive fold over the hashed items.     *)
(***************************************************************************)
RECURSIVE HashFold(_, _)
HashFold(items, h) ==
    IF items = <<>> THEN h
    ELSE HashFold(Tail(items), (h * 3 + Head(items) + 1) % Q)

Hash(tag, items) == HashFold(<<tag>> \o items, 1)

RECURSIVE SumPoints(_)
SumPoints(pts) ==
    IF pts = <<>> THEN 1 ELSE PointAdd(Head(pts), SumPoints(Tail(pts)))

RECURSIVE SumScalars(_)
SumScalars(xs) ==
    IF xs = <<>> THEN 0 ELSE (Head(xs) + SumScalars(Tail(xs))) % Q

(***************************************************************************)
(* signature.rs (modelled from the design document): key aggregation,      *)
(* nonce generation, the shared parameters, the signature fragment, the    *)
(* aggregate and its verification.                                         *)
(***************************************************************************)
\* The key-aggregation coefficient of public key pk in the ordered list pks.
AggCoeff(pks, pk) == Hash(1, pks \o <<pk>>)

RECURSIVE AggKeyFold(_, _)
AggKeyFold(pks, rest) ==
    IF rest = <<>> THEN 1
    ELSE PointAdd(ScalarMul(Head(rest), AggCoeff(pks, Head(rest))),
                  AggKeyFold(pks, Tail(rest)))

\* KeyAgg::key_aggregation_n(&pks, party_index), party_index counted from 0.
key_aggregation_n(pks, party_index) ==
    [X_tilde |-> AggKeyFold(pks, pks),
     a_i |-> AggCoeff(pks, pks[party_index + 1])]

\* sign(key_pair): the two secret nonces of the party and their points.
sign(key_pair, seed) ==
    [nonce |-> <<BasePoint(seed[1]), BasePoint(seed[2])>>,
     state1 |-> [r |-> seed, R |-> <<BasePoint(seed[1]), BasePoint(seed[2])>>]]

\* State::compute_global_params: the challenge, the aggregate nonce point
\* and the nonce coefficient.
compute_global_params(state1, message, pks, received_nonce, party_index) ==
    LET X == key_aggregation_n(pks, party_index).X_tilde
        R1 == PointAdd(state1.R[1],
                       SumPoints([k \in 1..Len(received_nonce) |-> received_nonce[k][1]]))
        R2 == PointAdd(state1.R[2],
                       SumPoints([k \in 1..Len(received_nonce) |-> received_nonce[k][2]]))
        b == Hash(2, <<X, R1, R2, message>>)
        R == PointAdd(R1, ScalarMul(R2, b))
        c == Hash(3, <<X, R, message>>)
    IN  [commit |-> c, r |-> R, b |-> b]

\* State::sign_prime: the party's signature fragment.
sign_prime(state1, key_pair, message, pks, received_nonce, party_index) ==
    LET g == compute_global_params(state1, message, pks, received_nonce, party_index)
        a == key_aggregation_n(pks, party_index).a_i
        s_i == (g.commit * a * key_pair.private_key
                + state1.r[1] + g.b * state1.r[2]) % Q
    IN  [state2 |-> [R |-> g.r, s_i |-> s_i], sign_fragment |-> s_i]

\* sign_double_prime: the own fragment plus the received ones.
sign_double_prime(state2, received_round2) ==
    (state2.s_i + SumScalars(received_round2)) % Q

\* verify(s, r_x, X_tilde, c): s*G - c*X_tilde has the x coordinate r_x.
verify(s, r_x, X_tilde, c) ==
    x_coor(PointSub(BasePoint(s), ScalarMul(X_tilde, c))) = r_x

(***************************************************************************)
(* Messages.  A body is one of the two round messages; the fields of the   *)
(* other round are left at their zero value.                               *)
(***************************************************************************)
NoBody == [round |-> 0, ephemeral_keys |-> <<1, 1>>, message |-> 0,
           pubkey |-> 1, sign_fragment |-> 0]

MessageRound1(ephemeral_keys, message, pubkey) ==
    [NoBody EXCEPT !.round = 1, !.ephemeral_keys = ephemeral_keys,
                   !.message = message, !.pubkey = pubkey]

MessageRound2(sign_fragment) ==
    [NoBody EXCEPT !.round = 2, !.sign_fragment = sign_fragment]

\* Msg { sender, receiver, body }; receiver None is a broadcast.
Msg(sender, receiver, body) ==
    [sender |-> sender, receiver |-> receiver, body |-> body]

(***************************************************************************)
(* The round states of rounds.rs.  One record shape serves all rounds;     *)
(* the fields a round does not own are left at their zero value.           *)
(***************************************************************************)
NoRound == [my_ind |-> 0, key_pair |-> KeyPair(0), message |-> 0,
            state1 |-> [r |-> <<0, 0>>, R |-> <<1, 1>>],
            commit |-> 0, r |-> 1, state2 |-> [R |-> 1, s_i |-> 0],
            key_agg |-> [X_tilde |-> 1, a_i |-> 0]]

Prepare(my_ind, key_pair, message) ==
    [NoRound EXCEPT !.my_ind = my_ind, !.key_pair = key_pair, !.message = message]

\* A Prepare::proceed that pushes its message twice.
PrepareProceedTwice(self, seed) ==
    LET sg == sign(self.key_pair, seed)
        msg == Msg(self.my_ind, None,
                   MessageRound1(sg.nonce, self.message, self.key_pair.public_key))
    IN  [ok |-> TRUE,
         out |-> <<msg, msg>>,
         next |-> [NoRound EXCEPT !.my_ind = self.my_ind, !.state1 = sg.state1,
                                  !.key_pair = self.key_pair, !.message = self.message]]

\* A Prepare::proceed that puts the private scalar where the public key
\* belongs.
PrepareProceedSendsSecret(self, seed) ==
    LET sg == sign(self.key_pair, seed)
    IN  [ok |-> TRUE,
         out |-> <<Msg(self.my_ind, None,
                       MessageRound1(sg.nonce, self.message, self.key_pair.private_key))>>,
         next |-> [NoRound EXCEPT !.my_ind = self.my_ind, !.state1 = sg.state1,
                                  !.key_pair = self.key_pair, !.message = self.message]]

\* Prepare::proceed: the nonce, the Round1 broadcast and the Round1 state.
PrepareProceed(self, seed) ==
    LET sg == sign(self.key_pair, seed)
    IN  [ok |-> TRUE,
         out |-> <<Msg(self.my_ind, None,
                       MessageRound1(sg.nonce, self.message, self.key_pair.public_key))>>,
         next |-> [NoRound EXCEPT !.my_ind = self.my_ind, !.state1 = sg.state1,
                                  !.key_pair = self.key_pair, !.message = self.message]]

\* The loop of Round1::proceed that rebuilds the ordered public-key list:
\* before the i-th received key (i counted from 0) the own key is pushed
\* when i + 1 = cur_ind.
RECURSIVE PksLoop(_, _, _, _)
PksLoop(msgs, i, cur_ind, own) ==
    IF i >= Len(msgs) THEN <<>>
    ELSE (IF i + 1 = cur_ind THEN <<own>> ELSE <<>>)
         \o <<msgs[i + 1].pubkey>>
         \o PksLoop(msgs, i + 1, cur_ind, own)

\* A list builder that puts the own key before the received ones.
BuildPksOwnFirst(msgs, cur_ind, own) ==
    <<own>> \o [k \in 1..Len(msgs) |-> msgs[k].pubkey]

\* A list builder that appends the own key after the received ones.
BuildPksOwnLast(msgs, cur_ind, own) ==
    [k \in 1..Len(msgs) |-> msgs[k].pubkey] \o <<own>>

\* The list pks of Round1::proceed: the loop, then the own key when it is
\* the last one (len + 1 = cur_ind).
BuildPks(msgs, cur_ind, own) ==
    PksLoop(msgs, 0, cur_ind, own)
    \o (IF Len(msgs) + 1 = cur_ind THEN <<own>> ELSE <<>>)

\* Round1::proceed: key aggregation, the fragment, the shared parameters,
\* the Round2 broadcast and the Round2 state.
Round1Proceed(self, input) ==
    LET pks == BuildPks(input, self.my_ind, self.key_pair.public_key)
        received_nonce == [k \in 1..Len(input) |-> input[k].ephemeral_keys]
        party_index == self.my_ind - 1
        key_agg == key_aggregation_n(pks, party_index)
        sp == sign_prime(self.state1, self.key_pair, self.message, pks,
                         received_nonce, party_index)
        g == compute_global_params(self.state1, self.message, pks,
                                   received_nonce, party_index)
    IN  [ok |-> TRUE,
         out |-> <<Msg(self.my_ind, None, MessageRound2(sp.sign_fragment))>>,
         next |-> [NoRound EXCEPT !.my_ind = self.my_ind, !.commit = g.commit,
                                  !.r = g.r, !.state2 = sp.state2,
                                  !.key_pair = self.key_pair, !.key_agg = key_agg]]

\* SignResult { r, s, commit }
SignResult(r, s, commit) == [r |-> r, s |-> s, commit |-> commit]
NoSignResult == SignResult(1, 0, 0)

\* A Round2::proceed without the assert! on verify.
Round2ProceedUnchecked(self, input) ==
    LET received_round2 == [k \in 1..Len(input) |-> input[k].sign_fragment]
        s == sign_double_prime(self.state2, received_round2)
    IN  [panic |-> FALSE, result |-> SignResult(self.r, s, self.commit)]

\* Round2::proceed: the aggregate scalar; the assert! on verify panics
\* when the aggregate does not verify, otherwise the SignResult is returned.
Round2Proceed(self, input) ==
    LET received_round2 == [k \in 1..Len(input) |-> input[k].sign_fragment]
        s == sign_double_prime(self.state2, received_round2)
    IN  IF ~verify(s, x_coor(self.r), self.key_agg.X_tilde, self.commit)
        THEN [panic |-> TRUE, result |-> NoSignResult]
        ELSE [panic |-> FALSE, result |-> SignResult(self.r, s, self.commit)]

(***************************************************************************)
(* The message store (modelled from the design document, section 4.2):     *)
(* one message per sender, none from the party itself, none from outside   *)
(* 1..n; ready with n - 1 messages; extracted in ascending sender order.   *)
(***************************************************************************)
BroadcastMsgsStoreNew(party_i, party_n) ==
    [party_i |-> party_i, party_n |-> party_n, msgs |-> {}]

StoreSenders(store) == {m.sender : m \in store.msgs}

StorePush(store, msg) ==
    IF \/ msg.sender = store.party_i
       \/ msg.sender \notin 1..store.party_n
       \/ msg.sender \in StoreSenders(store)
    THEN [ok |-> FALSE, store |-> store]
    ELSE [ok |-> TRUE,
          store |-> [store EXCEPT !.msgs = @ \cup {[sender |-> msg.sender,
                                                     body |-> msg.body]}]]

StoreWantsMore(store) == Cardinality(store.msgs) < store.party_n - 1

RECURSIVE StoreOrdered(_)
StoreOrdered(msgs) ==
    IF msgs = {} THEN <<>>
    ELSE LET first == CHOOSE m \in msgs : \A o \in msgs : m.sender <= o.sender
         IN  <<first.body>> \o StoreOrdered(msgs \ {first})

\* The batch of a store: the bodies in ascending sender order.
StoreFinish(store) == StoreOrdered(store.msgs)

\* The parties whose message the store still lacks.
StoreBlame(store) ==
    {j \in 1..store.party_n : j # store.party_i /\ j \notin StoreSenders(store)}

\* A store set up with the two arguments in the other order.
ExpectsMessagesSwapped(party_i, party_n) == BroadcastMsgsStoreNew(party_n, party_i)

\* A store set up for one party more than the session has.
ExpectsMessagesOfOneMore(party_i, party_n) == BroadcastMsgsStoreNew(party_i, party_n + 1)

\* Round1::expects_messages and Round2::expects_messages
Round1ExpectsMessages(party_i, party_n) == BroadcastMsgsStoreNew(party_i, party_n)
Round2ExpectsMessages(party_i, party_n) == BroadcastMsgsStoreNew(party_i, party_n)

(***************************************************************************)
(* The state machine of one party (modelled from the design document,      *)
(* sections 4.1 and 4.5): the current round state, the store of the        *)
(* current round, the outgoing queue and the output.                       *)
(*                                                                         *)
(* Errors are values carrying their own classification (is_critical).      *)
(* The fields script, hcrit, errs and bad_pick are not protocol data:      *)
(* script makes the machine behave, once, in a way the StateMachine        *)
(* contract allows and the executors must handle (an error returned by     *)
(* proceed, a finished machine without output, an output that is an        *)
(* error); hcrit is the classification the machine gives to the errors of  *)
(* handle_incoming; errs records every error the machine returned,         *)
(* handled the messages handle_incoming was given, and bad_pick whether    *)
(* pick_output was ever called on an unfinished machine.                   *)
(***************************************************************************)
Err(kind, critical, missing) ==
    [kind |-> kind, critical |-> critical, missing |-> missing]
NoErr == Err("none", FALSE, {})
is_critical(err) == err.critical

ResOk == [kind |-> "Ok", err |-> NoErr]
ResErr(err) == [kind |-> "Err", err |-> err]
ResPanic(why) == [kind |-> "Panic", err |-> Err(why, TRUE, {})]

OutOk(val) == [ok |-> TRUE, val |-> val, err |-> NoErr]
OutErr(err) == [ok |-> FALSE, val |-> NoSignResult, err |-> err]

Scripts == {"none", "proceedErrCritical", "proceedErrNonCritical",
            "proceedErrLate", "noOutput", "outputErr"}

\* Musig2Instance::with_fixed_seed(party_i, party_n, message, key_pair)
Musig2Instance(party_i, party_n, message, key_pair, seed, timeout, script, hcrit) ==
    [round |-> "Prepare", st |-> Prepare(party_i, key_pair, message),
     party_i |-> party_i, party_n |-> party_n, seed |-> seed,
     store_round |-> 0, store |-> BroadcastMsgsStoreNew(party_i, party_n),
     queue |-> <<>>, output |-> None, timeout |-> timeout,
     script |-> script, hcrit |-> hcrit, errs |-> <<>>, handled |-> {},
     bad_pick |-> FALSE]

SM_party_ind(s) == s.party_i

SM_current_round(s) ==
    CASE s.round = "Prepare" -> 0
      [] s.round = "Round1" -> 1
      [] s.round = "Round2" -> 2
      [] OTHER -> 3

SM_is_finished(s) == s.round = "Final"

\* True iff the input of the next round is complete.
SM_wants_to_proceed(s) ==
    CASE s.round = "Prepare" -> TRUE
      [] s.round \in {"Round1", "Round2"} -> ~StoreWantsMore(s.store)
      [] OTHER -> FALSE

SM_Fail(s, when, err) ==
    [sm |-> [s EXCEPT !.errs = Append(@, [when |-> when, err |-> err])],
     res |-> ResErr(err)]

\* What the machine stores as its output when Round2 has produced `result`.
SM_Output(s, result) ==
    CASE s.script = "noOutput" -> None
      [] s.script = "outputErr" -> Some(OutErr(Err("Output", TRUE, {})))
      [] OTHER -> Some(OutOk(result))

\* The script of the machine makes this call of proceed fail: the first
\* call, or (proceedErrLate, a non-critical error) the first one in Round2.
SM_ScriptedError(s) ==
    \/ s.script \in {"proceedErrCritical", "proceedErrNonCritical"}
    \/ s.script = "proceedErrLate" /\ s.round = "Round2"

\* proceed(): consumes the input of the current round and advances; the
\* store of the round is replaced by the store of the next one.
SM_proceed(s) ==
    CASE SM_ScriptedError(s) ->
           SM_Fail([s EXCEPT !.script = "none"], "Proceed",
                   Err("Proceed", s.script = "proceedErrCritical", {}))
      [] s.round = "Prepare" /\ ~SM_ScriptedError(s) ->
           LET o == PrepareProceed(s.st, s.seed)
           IN  [sm |-> [s EXCEPT !.round = "Round1", !.st = o.next,
                                 !.store_round = 1,
                                 !.store = Round1ExpectsMessages(s.party_i, s.party_n),
                                 !.queue = @ \o o.out],
                res |-> ResOk]
      [] s.round = "Round1" /\ ~SM_ScriptedError(s) ->
           LET o == Round1Proceed(s.st, StoreFinish(s.store))
           IN  [sm |-> [s EXCEPT !.round = "Round2", !.st = o.next,
                                 !.store_round = 2,
                                 !.store = Round2ExpectsMessages(s.party_i, s.party_n),
                                 !.queue = @ \o o.out],
                res |-> ResOk]
      [] s.round = "Round2" /\ ~SM_ScriptedError(s) ->
           LET o == Round2Proceed(s.st, StoreFinish(s.store))
           IN  IF o.panic
               THEN [sm |-> s, res |-> ResPanic("verify")]
               ELSE [sm |-> [s EXCEPT !.round = "Final", !.store_round = 0,
                                      !.store = BroadcastMsgsStoreNew(s.party_i, s.party_n),
                                      !.output = SM_Output(s, o.result)],
                     res |-> ResOk]
      [] OTHER -> SM_Fail(s, "Proceed", Err("NothingToProceed", TRUE, {}))

\* A handle_incoming that pushes the message into the store of the
\* current round whatever round the message belongs to.
SM_handle_incoming_any_round(s, msg) ==
    LET given == [s EXCEPT !.handled = @ \cup {msg}]
        p == StorePush(s.store, msg)
    IN  IF p.ok
        THEN [sm |-> [given EXCEPT !.store = p.store], res |-> ResOk]
        ELSE SM_Fail(given, "HandleIncoming", Err("HandleMessage", s.hcrit, {}))

\* handle_incoming(msg): the message goes into the store of the current
\* round; a message of another round, or one the store refuses, is an error
\* and is not stored.
SM_handle_incoming(s, msg) ==
    LET given == [s EXCEPT !.handled = @ \cup {msg}]
    IN  IF msg.body.round # s.store_round
        THEN SM_Fail(given, "HandleIncoming", Err("OutOfOrderMessage", s.hcrit, {}))
        ELSE LET p == StorePush(s.store, msg)
             IN  IF p.ok
                 THEN [sm |-> [given EXCEPT !.store = p.store], res |-> ResOk]
                 ELSE SM_Fail(given, "HandleIncoming", Err("HandleMessage", s.hcrit, {}))

\* pick_output(): one-shot extraction of the output.
SM_pick_output(s) ==
    [sm |-> [s EXCEPT !.output = None,
                      !.bad_pick = @ \/ ~SM_is_finished(s)],
     out |-> s.output]

\* round_timeout(): the deadline of the current round, if any.
SM_round_timeout(s) ==
    IF s.timeout THEN Some(Timeout) ELSE None

\* round_timeout_reached(): the error naming the missing contributions.
SM_round_timeout_reached(s) ==
    Err("RoundTimeout", TRUE, StoreBlame(s.store))

(***************************************************************************)
(* The state.                                                              *)
(***************************************************************************)
VARIABLES
    mode,             \* "sim": Simulation::run, "async": one AsyncProtocol per party
    n,                \* the number of parties of the session
    silent,           \* the parties that never run
    budget,           \* the number of faults the transport of the session can have
    given,            \* the state machine of each party as the simulation was given it
    sm,               \* the state machine of each party
    \* Simulation
    parties,          \* Simulation.parties: the party indices in add order
    msgs_pull,        \* the messages sent during the current iteration
    msgs_pull_frozen, \* the messages being delivered in the current iteration
    sim_pc,           \* the position of Simulation::run
    sim_result,       \* what Simulation::run returned
    benchmark,        \* Simulation.benchmark
    earlier,          \* what the earlier simulations of the same parties returned
    \* AsyncProtocol, one per party
    state,            \* AsyncProtocol.state is Some
    deadline,         \* AsyncProtocol.deadline: None, or Some(time left)
    current_round,    \* AsyncProtocol.current_round
    watcher,          \* the non-critical errors the watcher was given
    pc,               \* the position of run
    blocking,         \* proceed is running on the blocking worker
    results,          \* what each call of run returned, in call order
    \* the transport between the AsyncProtocol instances
    inbox,            \* the items the incoming stream of each party has ready
    closed,           \* the incoming stream of the party has ended
    sink_broken,      \* the outgoing sink of the party fails
    faults,           \* the transport faults that occurred
    sent,             \* the messages each party gave to its sink, in order
    late              \* the parties whose deadline elapsed with an incomplete store

simVars == <<parties, msgs_pull, msgs_pull_frozen, sim_pc, sim_result, benchmark,
             earlier>>
execVars == <<state, deadline, current_round, watcher, pc, blocking, results>>
netVars == <<inbox, closed, sink_broken, faults, sent, late>>
asyncVars == <<execVars, netVars>>
session == <<mode, n, silent, budget, given>>
vars == <<session, sm, simVars, asyncVars>>

Active == 1..n

(***************************************************************************)
(* Simulation (sim/simulation.rs).                                         *)
(***************************************************************************)
SimPc(phase, step, idx) == [phase |-> phase, step |-> step, idx |-> idx]
SimResult(kind, outs, err) == [kind |-> kind, outs |-> outs, err |-> err]
SimRunning == SimResult("none", <<>>, NoErr)

\* Where run continues after the send_outgoing of the party at position idx.
SimAfterSend(at) ==
    IF at.idx < Len(parties) THEN SimPc(at.phase, "call", at.idx + 1)
    ELSE CASE at.phase = "first" -> SimPc("finish0", "call", 1)
           [] at.phase = "handle" -> SimPc("proceed", "call", 1)
           [] OTHER -> SimPc("finish", "call", 1)

SimReturn(res) ==
    /\ sim_result' = res
    /\ sim_pc' = SimPc("done", "call", 1)

\* Simulation::run up to its first loop: at least two parties are required.
SimRun ==
    /\ mode = "sim"
    /\ sim_pc.phase = "start"
    /\ IF Len(parties) >= 2
       THEN /\ sim_pc' = SimPc("first", "call", 1)
            /\ sim_result' = sim_result
       ELSE SimReturn(SimResult("Panic", <<>>, Err("at least two parties required", TRUE, {})))
    /\ msgs_pull' = <<>>
    /\ UNCHANGED <<session, earlier, sm, parties, msgs_pull_frozen, benchmark, asyncVars>>

\* A proceed_if_needed in which the nonces of Prepare::proceed are drawn
\* anew in every simulation instead of being derived from what the party
\* was given.
SimProceedIfNeededFreshNonce ==
    /\ mode = "sim"
    /\ sim_pc.phase \in {"first", "proceed"}
    /\ sim_pc.step = "call"
    /\ LET p == parties[sim_pc.idx]
           round_old == SM_current_round(sm[p])
           o == SM_proceed([sm[p] EXCEPT !.seed[1] = (@ + Len(earlier)) % Q])
           round_new == SM_current_round(o.sm)
       IN  IF ~SM_wants_to_proceed(sm[p])
           THEN /\ sim_pc' = [sim_pc EXCEPT !.step = "send"]
                /\ UNCHANGED <<sm, sim_result, benchmark>>
           ELSE IF o.res.kind = "Panic"
           THEN /\ SimReturn(SimResult("Panic", <<>>, o.res.err))
                /\ UNCHANGED <<sm, benchmark>>
           ELSE /\ sm' = [sm EXCEPT ![p] = o.sm]
                /\ IF o.res.kind = "Err" /\ is_critical(o.res.err)
                   THEN /\ SimReturn(SimResult("Err", <<>>, o.res.err))
                        /\ UNCHANGED benchmark
                   ELSE /\ sim_pc' = [sim_pc EXCEPT !.step = "send"]
                        /\ sim_result' = sim_result
                        /\ benchmark' =
                             IF benchmark.enabled /\ round_old # round_new
                             THEN [benchmark EXCEPT !.measurements =
                                     Append(@, [round |-> round_old, party |-> p])]
                             ELSE benchmark
    /\ UNCHANGED <<session, earlier, parties, msgs_pull, msgs_pull_frozen, asyncVars>>

\* A proceed_if_needed that saves the measurement under the round the
\* machine is in after proceed.
SimProceedIfNeededNewRound ==
    /\ mode = "sim"
    /\ sim_pc.phase \in {"first", "proceed"}
    /\ sim_pc.step = "call"
    /\ LET p == parties[sim_pc.idx]
           round_old == SM_current_round(sm[p])
           o == SM_proceed(sm[p])
           round_new == SM_current_round(o.sm)
       IN  IF ~SM_wants_to_proceed(sm[p])
           THEN /\ sim_pc' = [sim_pc EXCEPT !.step = "send"]
                /\ UNCHANGED <<sm, sim_result, benchmark>>
           ELSE IF o.res.kind = "Panic"
           THEN /\ SimReturn(SimResult("Panic", <<>>, o.res.err))
                /\ UNCHANGED <<sm, benchmark>>
           ELSE /\ sm' = [sm EXCEPT ![p] = o.sm]
                /\ IF o.res.kind = "Err" /\ is_critical(o.res.err)
                   THEN /\ SimReturn(SimResult("Err", <<>>, o.res.err))
                        /\ UNCHANGED benchmark
                   ELSE /\ sim_pc' = [sim_pc EXCEPT !.step = "send"]
                        /\ sim_result' = sim_result
                        /\ benchmark' =
                             IF benchmark.enabled /\ round_old # round_new
                             THEN [benchmark EXCEPT !.measurements =
                                     Append(@, [round |-> round_new, party |-> p])]
                             ELSE benchmark
    /\ UNCHANGED <<session, earlier, parties, msgs_pull, msgs_pull_frozen, asyncVars>>

\* Party::proceed_if_needed
SimProceedIfNeeded ==
    /\ mode = "sim"
    /\ sim_pc.phase \in {"first", "proceed"}
    /\ sim_pc.step = "call"
    /\ LET p == parties[sim_pc.idx]
           round_old == SM_current_round(sm[p])
           o == SM_proceed(sm[p])
           round_new == SM_current_round(o.sm)
       IN  IF ~SM_wants_to_proceed(sm[p])
           THEN /\ sim_pc' = [sim_pc EXCEPT !.step = "send"]
                /\ UNCHANGED <<sm, sim_result, benchmark>>
           ELSE IF o.res.kind = "Panic"
           THEN /\ SimReturn(SimResult("Panic", <<>>, o.res.err))
                /\ UNCHANGED <<sm, benchmark>>
           ELSE /\ sm' = [sm EXCEPT ![p] = o.sm]
                /\ IF o.res.kind = "Err" /\ is_critical(o.res.err)
                   THEN /\ SimReturn(SimResult("Err", <<>>, o.res.err))
                        /\ UNCHANGED benchmark
                   ELSE /\ sim_pc' = [sim_pc EXCEPT !.step = "send"]
                        /\ sim_result' = sim_result
                        /\ benchmark' =
                             IF benchmark.enabled /\ round_old # round_new
                             THEN [benchmark EXCEPT !.measurements =
                                     Append(@, [round |-> round_old, party |-> p])]
                             ELSE benchmark
    /\ UNCHANGED <<session, earlier, parties, msgs_pull, msgs_pull_frozen, asyncVars>>

\* Party::send_outgoing: the queue of the party is moved to msgs_pull.
SimSendOutgoing ==
    /\ mode = "sim"
    /\ sim_pc.phase \in {"first", "handle", "proceed"}
    /\ sim_pc.step = "send"
    /\ LET p == parties[sim_pc.idx]
       IN  /\ msgs_pull' = msgs_pull \o sm[p].queue
           /\ sm' = [sm EXCEPT ![p].queue = <<>>]
    /\ sim_pc' = SimAfterSend(sim_pc)
    /\ UNCHANGED <<session, earlier, parties, msgs_pull_frozen, sim_result, benchmark, asyncVars>>

\* A rule that skips the messages the party sent itself and nothing else.
SimSkipsOwn(s, msg) == msg.sender = SM_party_ind(s)

\* The addressing rule of Party::handle_incoming: a message is skipped when
\* it is addressed to another party, or is a broadcast of the party itself.
SimSkips(s, msg) ==
    /\ Some(SM_party_ind(s)) # msg.receiver
    /\ (IsSome(msg.receiver) \/ msg.sender = SM_party_ind(s))

\* A loop that hands every message to the machine and goes on after any
\* error, critical or not.
RECURSIVE SimHandleAll(_, _, _)
SimHandleAll(s, msgs, k) ==
    IF k > Len(msgs) THEN [sm |-> s, res |-> ResOk]
    ELSE IF Some(SM_party_ind(s)) # msgs[k].receiver
            /\ (IsSome(msgs[k].receiver) \/ msgs[k].sender = SM_party_ind(s))
    THEN SimHandleAll(s, msgs, k + 1)
    ELSE SimHandleAll(SM_handle_incoming(s, msgs[k]).sm, msgs, k + 1)

\* The loop of Party::handle_incoming over the frozen messages from the
\* k-th on: it stops at the first critical error.
RECURSIVE SimHandleLoop(_, _, _)
SimHandleLoop(s, msgs, k) ==
    IF k > Len(msgs) THEN [sm |-> s, res |-> ResOk]
    ELSE IF SimSkips(s, msgs[k]) THEN SimHandleLoop(s, msgs, k + 1)
    ELSE LET o == SM_handle_incoming(s, msgs[k])
         IN  IF o.res.kind = "Err" /\ is_critical(o.res.err)
             THEN o
             ELSE SimHandleLoop(o.sm, msgs, k + 1)

\* Party::handle_incoming
SimHandleIncoming ==
    /\ mode = "sim"
    /\ sim_pc.phase = "handle"
    /\ sim_pc.step = "call"
    /\ LET p == parties[sim_pc.idx]
           o == SimHandleLoop(sm[p], msgs_pull_frozen, 1)
       IN  /\ sm' = [sm EXCEPT ![p] = o.sm]
           /\ IF o.res.kind = "Err"
              THEN SimReturn(SimResult("Err", <<>>, o.res.err))
              ELSE /\ sim_pc' = [sim_pc EXCEPT !.step = "send"]
                   /\ sim_result' = sim_result
    /\ UNCHANGED <<session, earlier, parties, msgs_pull, msgs_pull_frozen, benchmark, asyncVars>>

\* A head of the loop that freezes the messages and leaves them in
\* msgs_pull as well.
SimFreezeKeeps ==
    /\ mode = "sim"
    /\ sim_pc.phase = "freeze"
    /\ msgs_pull_frozen' = msgs_pull
    /\ msgs_pull' = msgs_pull
    /\ sim_pc' = SimPc("handle", "call", 1)
    /\ UNCHANGED <<session, earlier, sm, parties, sim_result, benchmark, asyncVars>>

\* The head of the loop of Simulation::run: msgs_pull.split_off(0)
SimFreeze ==
    /\ mode = "sim"
    /\ sim_pc.phase = "freeze"
    /\ msgs_pull_frozen' = msgs_pull
    /\ msgs_pull' = <<>>
    /\ sim_pc' = SimPc("handle", "call", 1)
    /\ UNCHANGED <<session, earlier, sm, parties, sim_result, benchmark, asyncVars>>

\* The collection loop of finish_if_possible from position k on: expect
\* panics on a missing output, and an output that is an error is returned.
RECURSIVE SimCollect(_, _, _)
SimCollect(machines, k, outs) ==
    IF k > Len(parties) THEN [sm |-> machines, res |-> SimResult("Ok", outs, NoErr)]
    ELSE LET p == parties[k]
             o == SM_pick_output(machines[p])
             picked == [machines EXCEPT ![p] = o.sm]
         IN  IF IsNone(o.out)
             THEN [sm |-> picked,
                   res |-> SimResult("Panic", <<>>,
                             Err("is_finished == true, but pick_output == None", TRUE, {}))]
             ELSE IF ~Unwrap(o.out).ok
             THEN [sm |-> picked, res |-> SimResult("Err", <<>>, Unwrap(o.out).err)]
             ELSE SimCollect(picked, k + 1, Append(outs, Unwrap(o.out).val))

SimSomeoneIsFinished ==
    \E k \in 1..Len(parties) : SM_is_finished(sm[parties[k]])

\* A check of the terminal state that is content with one finished party.
SimAnyIsFinished ==
    \E k \in 1..Len(parties) : SM_is_finished(sm[parties[k]])

\* A check of the terminal state that no set of machines satisfies.
SimEveryoneIsGone ==
    \A k \in 1..Len(parties) : SM_is_finished(sm[parties[k]]) /\ sm[parties[k]].party_n = 0

SimEveryoneIsFinished ==
    \A k \in 1..Len(parties) : SM_is_finished(sm[parties[k]])

\* finish_if_possible and what run does with its answer
SimFinishIfPossible ==
    /\ mode = "sim"
    /\ sim_pc.phase \in {"finish0", "finish"}
    /\ IF ~SimSomeoneIsFinished \/ ~SimEveryoneIsFinished
       THEN /\ sim_pc' = SimPc("freeze", "call", 1)
            /\ UNCHANGED <<sm, sim_result>>
       ELSE LET c == SimCollect(sm, 1, <<>>)
            IN  /\ sm' = c.sm
                /\ SimReturn(c.res)
    /\ UNCHANGED <<session, earlier, parties, msgs_pull, msgs_pull_frozen, benchmark, asyncVars>>

\* The simulation is set up once more: a new Simulation, to which the same
\* parties, as they were given, are added in the same order.
SimAgain ==
    /\ mode = "sim"
    /\ sim_pc.phase = "done"
    /\ Len(earlier) + 1 < MaxRuns
    /\ earlier' = Append(earlier, sim_result)
    /\ sm' = given
    /\ msgs_pull' = <<>>
    /\ msgs_pull_frozen' = <<>>
    /\ sim_pc' = SimPc("start", "call", 1)
    /\ sim_result' = SimRunning
    /\ benchmark' = [benchmark EXCEPT !.measurements = <<>>]
    /\ UNCHANGED <<session, parties, asyncVars>>

SimNext ==
    \/ SimRun
    \/ SimProceedIfNeeded
    \/ SimSendOutgoing
    \/ SimHandleIncoming
    \/ SimFreeze
    \/ SimFinishIfPossible
    \/ SimAgain

(***************************************************************************)
(* AsyncProtocol (async_protocol.rs).                                      *)
(*                                                                         *)
(* The helpers of the executor are operators on the executor of one party: *)
(* its fields (state, deadline, current_round, watcher), the machine the   *)
(* state field holds (sm), the sink (sink_broken, and out: the messages    *)
(* the sink accepted), and how far run has come: pc is the index in RunOps *)
(* of the call run is suspended in (0 outside run), blocking tells that    *)
(* proceed is running on the blocking worker, and ret is what run has      *)
(* returned, once it has.                                                  *)
(*                                                                         *)
(* run is the sequence of helper calls RunOps: the calls before the loop,  *)
(* then the body of the loop, which starts again at LoopHead.  A task      *)
(* shares nothing with the other tasks but the transport, so what run does *)
(* between two suspension points (the await of the blocking worker, and    *)
(* the await of the next incoming item) is one step.                       *)
(***************************************************************************)
RunOps ==
    <<"refresh_timer", "proceed_if_needed", "send_outgoing", "refresh_timer",
      "finish_if_possible",
      "handle_incoming", "send_outgoing", "refresh_timer",
      "proceed_if_needed", "send_outgoing", "refresh_timer",
      "finish_if_possible">>
LoopHead == 6

NextPc(i) == IF i = Len(RunOps) THEN LoopHead ELSE i + 1

\* A value of Result<SM::Output, Error<..>>
Ret(kind, err, out) == [kind |-> kind, err |-> err, out |-> out]
RetOk(out) == Ret("Ok", NoErr, out)
RetErr(kind, err) == Ret(kind, err, NoSignResult)
MissingState == RetErr("InternalErr", Err("MissingState", TRUE, {}))

\* run returns res to its caller.
Returns(c, res) == [c EXCEPT !.ret = Some(res)]

\* A refresh_timer that records the round and sets no deadline.
refresh_timer_no_deadline(c) ==
    IF ~c.state THEN Returns(c, MissingState)
    ELSE [c EXCEPT !.current_round = Some(SM_current_round(c.sm))]

\* A refresh_timer that sets the deadline anew at every call.
refresh_timer_every_call(c) ==
    IF ~c.state THEN Returns(c, MissingState)
    ELSE [c EXCEPT !.current_round = Some(SM_current_round(c.sm)),
                   !.deadline = SM_round_timeout(c.sm)]

\* refresh_timer
refresh_timer(c) ==
    IF ~c.state THEN Returns(c, MissingState)
    ELSE LET round_n == SM_current_round(c.sm)
         IN  IF c.current_round # Some(round_n)
             THEN [c EXCEPT !.current_round = Some(round_n),
                            !.deadline = SM_round_timeout(c.sm)]
             ELSE c

\* A proceed_if_needed that has proceed run without asking the machine.
proceed_if_needed_unasked(c) ==
    IF ~c.state THEN Returns(c, MissingState)
    ELSE [c EXCEPT !.state = FALSE, !.blocking = TRUE]

\* A proceed_if_needed that leaves the machine in the executor while the
\* blocking worker runs proceed.
proceed_if_needed_keeps(c) ==
    IF ~c.state THEN Returns(c, MissingState)
    ELSE IF SM_wants_to_proceed(c.sm)
    THEN [c EXCEPT !.blocking = TRUE]
    ELSE c

\* proceed_if_needed up to the await of spawn_blocking: the state is taken
\* out of the executor; a machine that does not want to proceed is put back.
proceed_if_needed(c) ==
    IF ~c.state THEN Returns(c, MissingState)
    ELSE IF SM_wants_to_proceed(c.sm)
    THEN [c EXCEPT !.state = FALSE, !.blocking = TRUE]
    ELSE c

\* A join that hands a panic of proceed to the caller as a protocol error.
proceed_joined_panic_as_error(c) ==
    LET o == SM_proceed(c.sm)
        d == [c EXCEPT !.blocking = FALSE]
    IN  IF o.res.kind = "Ok"
        THEN [d EXCEPT !.sm = o.sm, !.state = TRUE]
        ELSE Returns([d EXCEPT !.sm = o.sm], RetErr("Proceed", o.res.err))

\* A join that treats every error of proceed as critical.
proceed_joined_all_critical(c) ==
    LET o == SM_proceed(c.sm)
        d == [c EXCEPT !.blocking = FALSE]
    IN  IF o.res.kind = "Panic"
        THEN Returns(d, RetErr("ProceedPanicked", o.res.err))
        ELSE IF o.res.kind = "Ok"
        THEN [d EXCEPT !.sm = o.sm, !.state = TRUE]
        ELSE Returns([d EXCEPT !.sm = o.sm], RetErr("Proceed", o.res.err))

\* A join that leaves the slot of the executor empty after proceed.
proceed_joined_leaves_empty(c) ==
    LET o == SM_proceed(c.sm)
        d == [c EXCEPT !.blocking = FALSE]
    IN  IF o.res.kind = "Panic"
        THEN Returns(d, RetErr("ProceedPanicked", o.res.err))
        ELSE IF o.res.kind = "Ok"
        THEN [d EXCEPT !.sm = o.sm]
        ELSE IF is_critical(o.res.err)
        THEN Returns([d EXCEPT !.sm = o.sm], RetErr("Proceed", o.res.err))
        ELSE [d EXCEPT !.sm = o.sm,
                       !.watcher = Append(@, [when |-> "Proceed", err |-> o.res.err])]

\* proceed_if_needed from the await on: proceed has run on the blocking
\* worker.  A panic comes back as a JoinError and the machine is lost; else
\* the machine is put back unless proceed returned a critical error.
proceed_joined(c) ==
    LET o == SM_proceed(c.sm)
        d == [c EXCEPT !.blocking = FALSE]
    IN  IF o.res.kind = "Panic"
        THEN Returns(d, RetErr("ProceedPanicked", o.res.err))
        ELSE IF o.res.kind = "Ok"
        THEN [d EXCEPT !.sm = o.sm, !.state = TRUE]
        ELSE IF is_critical(o.res.err)
        THEN Returns([d EXCEPT !.sm = o.sm], RetErr("Proceed", o.res.err))
        ELSE [d EXCEPT !.sm = o.sm, !.state = TRUE,
                       !.watcher = Append(@, [when |-> "Proceed", err |-> o.res.err])]

\* A send_outgoing that gives the queue to the sink and leaves it as it is.
send_outgoing_keeps(c) ==
    IF ~c.state THEN Returns(c, MissingState)
    ELSE IF c.sm.queue = <<>> THEN c
    ELSE IF c.sink_broken
    THEN Returns(c, RetErr("Send", Err("Send", TRUE, {})))
    ELSE [c EXCEPT !.out = @ \o c.sm.queue]

\* send_outgoing: the queue is drained into the sink.
send_outgoing(c) ==
    IF ~c.state THEN Returns(c, MissingState)
    ELSE IF c.sm.queue = <<>> THEN c
    ELSE IF c.sink_broken
    THEN Returns([c EXCEPT !.sm.queue = <<>>], RetErr("Send", Err("Send", TRUE, {})))
    ELSE [c EXCEPT !.sm.queue = <<>>, !.out = @ \o c.sm.queue]

\* A finish_if_possible that never finds the machine finished.
finish_if_possible_never(c) ==
    IF ~c.state THEN Returns(c, MissingState) ELSE c

\* A finish_if_possible that asks for the output without asking whether
\* the machine is finished.
finish_if_possible_unasked(c) ==
    IF ~c.state THEN Returns(c, MissingState)
    ELSE LET o == SM_pick_output(c.sm)
             d == [c EXCEPT !.sm = o.sm]
         IN  IF IsNone(o.out) THEN d
             ELSE IF Unwrap(o.out).ok
             THEN Returns(d, RetOk(Unwrap(o.out).val))
             ELSE Returns(d, RetErr("Finish", Unwrap(o.out).err))

\* finish_if_possible and what run does with its answer
finish_if_possible(c) ==
    IF ~c.state THEN Returns(c, MissingState)
    ELSE IF ~SM_is_finished(c.sm) THEN c
    ELSE LET o == SM_pick_output(c.sm)
             d == [c EXCEPT !.sm = o.sm]
         IN  IF IsNone(o.out)
             THEN Returns(d, RetErr("BadStateMachine",
                                    Err("ProtocolFinishedButNoResult", TRUE, {})))
             ELSE IF Unwrap(o.out).ok
             THEN Returns(d, RetOk(Unwrap(o.out).val))
             ELSE Returns(d, RetErr("Finish", Unwrap(o.out).err))

\* What the await of enforce_timeout(deadline, incoming.next()) yields: an
\* item of the stream, Ok(msg) or Err(transport error); the end of the
\* stream; or the deadline.
ItemMsg(msg) == [ok |-> TRUE, msg |-> msg]
ItemErr == [ok |-> FALSE, msg |-> Msg(0, None, NoBody)]
Yield(kind, item) == [kind |-> kind, item |-> item]

\* A handle_incoming that reports the deadline as the end of the stream.
handle_incoming_timeout_as_eof(c, y) ==
    IF y.kind = "item" /\ y.item.ok
    THEN LET o == SM_handle_incoming(c.sm, y.item.msg)
         IN  IF o.res.kind = "Ok" THEN [c EXCEPT !.sm = o.sm]
             ELSE IF is_critical(o.res.err)
             THEN Returns([c EXCEPT !.sm = o.sm], RetErr("HandleIncoming", o.res.err))
             ELSE [c EXCEPT !.sm = o.sm,
                            !.watcher = Append(@, [when |-> "HandleIncoming",
                                                   err |-> o.res.err])]
    ELSE IF y.kind = "item"
    THEN Returns(c, RetErr("Recv", Err("Recv", TRUE, {})))
    ELSE Returns(c, RetErr("RecvEof", Err("RecvEof", TRUE, {})))

\* A handle_incoming that goes on after an error of the stream.
handle_incoming_recv_ignored(c, y) ==
    IF y.kind = "item" /\ y.item.ok
    THEN LET o == SM_handle_incoming(c.sm, y.item.msg)
         IN  IF o.res.kind = "Ok" THEN [c EXCEPT !.sm = o.sm]
             ELSE IF is_critical(o.res.err)
             THEN Returns([c EXCEPT !.sm = o.sm], RetErr("HandleIncoming", o.res.err))
             ELSE [c EXCEPT !.sm = o.sm,
                            !.watcher = Append(@, [when |-> "HandleIncoming",
                                                   err |-> o.res.err])]
    ELSE IF y.kind = "item" THEN c
    ELSE IF y.kind = "eof"
    THEN Returns(c, RetErr("RecvEof", Err("RecvEof", TRUE, {})))
    ELSE Returns(c, RetErr("HandleIncomingTimeout", SM_round_timeout_reached(c.sm)))

\* A handle_incoming that takes the machine out of the executor when the
\* deadline ends its wait.
handle_incoming_timeout_takes(c, y) ==
    IF ~c.state THEN Returns(c, MissingState)
    ELSE IF y.kind = "item" /\ y.item.ok
    THEN LET o == SM_handle_incoming(c.sm, y.item.msg)
         IN  IF o.res.kind = "Ok" THEN [c EXCEPT !.sm = o.sm]
             ELSE IF is_critical(o.res.err)
             THEN Returns([c EXCEPT !.sm = o.sm], RetErr("HandleIncoming", o.res.err))
             ELSE [c EXCEPT !.sm = o.sm,
                            !.watcher = Append(@, [when |-> "HandleIncoming",
                                                   err |-> o.res.err])]
    ELSE IF y.kind = "item"
    THEN Returns(c, RetErr("Recv", Err("Recv", TRUE, {})))
    ELSE IF y.kind = "eof"
    THEN Returns(c, RetErr("RecvEof", Err("RecvEof", TRUE, {})))
    ELSE Returns([c EXCEPT !.state = FALSE],
                 RetErr("HandleIncomingTimeout", SM_round_timeout_reached(c.sm)))

\* handle_incoming, given what its await yielded
handle_incoming(c, y) ==
    IF ~c.state THEN Returns(c, MissingState)
    ELSE IF y.kind = "item" /\ y.item.ok
    THEN LET o == SM_handle_incoming(c.sm, y.item.msg)
         IN  IF o.res.kind = "Ok" THEN [c EXCEPT !.sm = o.sm]
             ELSE IF is_critical(o.res.err)
             THEN Returns([c EXCEPT !.sm = o.sm], RetErr("HandleIncoming", o.res.err))
             ELSE [c EXCEPT !.sm = o.sm,
                            !.watcher = Append(@, [when |-> "HandleIncoming",
                                                   err |-> o.res.err])]
    ELSE IF y.kind = "item"
    THEN Returns(c, RetErr("Recv", Err("Recv", TRUE, {})))
    ELSE IF y.kind = "eof"
    THEN Returns(c, RetErr("RecvEof", Err("RecvEof", TRUE, {})))
    ELSE Returns(c, RetErr("HandleIncomingTimeout", SM_round_timeout_reached(c.sm)))

\* What run does once the helper it called has left the executor as d: it
\* returns the helper's error, awaits the blocking worker, or calls on.
RECURSIVE RunFrom(_, _)
AfterCall(d, i) ==
    IF IsSome(d.ret) THEN [d EXCEPT !.pc = 0]
    ELSE IF d.blocking THEN [d EXCEPT !.pc = i]
    ELSE RunFrom(d, NextPc(i))

\* The i-th call of RunOps (not the one that awaits an incoming item).
Call(c, i) ==
    CASE RunOps[i] = "refresh_timer" -> refresh_timer(c)
      [] RunOps[i] = "proceed_if_needed" -> proceed_if_needed(c)
      [] RunOps[i] = "send_outgoing" -> send_outgoing(c)
      [] OTHER -> finish_if_possible(c)

\* The calls of run from the i-th of RunOps on, up to the next suspension
\* point or the return.
RunFrom(c, i) ==
    IF RunOps[i] = "handle_incoming" THEN [c EXCEPT !.pc = i]
    ELSE CHOOSE r \in {AfterCall(d, i) : d \in {Call(c, i)}} : TRUE

\* A run that does not ask whether the executor has run before.
run_unguarded(c) == RunFrom(c, 1)

\* run up to its first suspension point: an executor that has run before
\* is exhausted.
run(c) ==
    IF IsSome(c.current_round)
    THEN Returns(c, RetErr("Exhausted", NoErr))
    ELSE RunFrom(c, 1)

\* run goes on after a helper that awaited: the helper's error, if any, is
\* returned, else the calls that follow are made.
Resume(d, i) ==
    IF IsSome(d.ret) THEN [d EXCEPT !.pc = 0] ELSE RunFrom(d, NextPc(i))

(***************************************************************************)
(* The asynchronous session: one executor per party and the transport.     *)
(***************************************************************************)
\* The executor of party p.
Exec(p) ==
    [sm |-> sm[p], state |-> state[p], deadline |-> deadline[p],
     current_round |-> current_round[p], watcher |-> watcher[p],
     sink_broken |-> sink_broken[p], out |-> <<>>, pc |-> pc[p],
     blocking |-> blocking[p], ret |-> None]

\* The transport: a message given to the sink of its sender becomes ready
\* on the stream of every party it is addressed to, the sender excepted; a
\* stream that has ended yields nothing more.
Addressed(msg, q) ==
    /\ q # msg.sender
    /\ (IsNone(msg.receiver) \/ msg.receiver = Some(q))

Delivered(box, msgs) ==
    [q \in Active |->
        IF closed[q] THEN box[q]
        ELSE box[q] \cup {ItemMsg(msgs[k]) :
                             k \in {j \in 1..Len(msgs) : Addressed(msgs[j], q)}}]

\* The step of party p ends with its executor as c and its stream as box.
Becomes(p, c, box) ==
    /\ sm' = [sm EXCEPT ![p] = c.sm]
    /\ state' = [state EXCEPT ![p] = c.state]
    /\ deadline' = [deadline EXCEPT ![p] = c.deadline]
    /\ current_round' = [current_round EXCEPT ![p] = c.current_round]
    /\ watcher' = [watcher EXCEPT ![p] = c.watcher]
    /\ pc' = [pc EXCEPT ![p] = c.pc]
    /\ blocking' = [blocking EXCEPT ![p] = c.blocking]
    /\ results' = [results EXCEPT ![p] = @ \o c.ret]
    /\ inbox' = Delivered([inbox EXCEPT ![p] = box], c.out)
    /\ sent' = [sent EXCEPT ![p] = @ \o c.out]
    /\ UNCHANGED <<session, simVars, closed, sink_broken, faults, late>>

\* The party is inside a call of run.
Running(p) == pc[p] > 0

\* A call of run.
Run(p) ==
    /\ mode = "async"
    /\ p \in Active \ silent
    /\ ~Running(p)
    /\ Len(results[p]) < MaxRuns
    /\ \E c \in {run(Exec(p))} : Becomes(p, c, inbox[p])

\* The blocking worker is done with proceed.
ProceedJoin(p) ==
    /\ mode = "async"
    /\ p \in Active
    /\ Running(p)
    /\ blocking[p]
    /\ \E d \in {proceed_joined(Exec(p))} :
         \E c \in {Resume(d, pc[p])} :
           Becomes(p, c, inbox[p])

\* The deadline of the executor has elapsed.
Elapsed(p) == deadline[p] = Some(0)

\* What the await of handle_incoming can yield: an item the stream has
\* ready; else the end of the stream; else, once elapsed, the deadline.
Yields(p) ==
    IF inbox[p] # {} THEN {Yield("item", item) : item \in inbox[p]}
    ELSE IF closed[p] THEN {Yield("eof", ItemErr)}
    ELSE IF Elapsed(p) THEN {Yield("elapsed", ItemErr)}
    ELSE {}

\* The await of handle_incoming is over.
HandleIncoming(p) ==
    /\ mode = "async"
    /\ p \in Active
    /\ Running(p)
    /\ ~blocking[p]
    /\ \E y \in Yields(p) :
         \E d \in {handle_incoming(Exec(p), y)} :
           \E c \in {Resume(d, pc[p])} :
             Becomes(p, c, IF y.kind = "item" THEN inbox[p] \ {y.item} ELSE inbox[p])

\* The deadline of the party is the one of the round its machine is in, and
\* the store of that round is incomplete.
ShortOfMessages(p) ==
    /\ current_round[p] = Some(SM_current_round(sm[p]))
    /\ sm[p].round \in {"Round1", "Round2"}
    /\ StoreWantsMore(sm[p].store)

\* Time passes: every deadline that has not elapsed gets one unit closer.
Tick ==
    /\ mode = "async"
    /\ \E p \in Active : Running(p) /\ IsSome(deadline[p]) /\ Unwrap(deadline[p]) > 0
    /\ deadline' = [p \in Active |->
                      IF IsSome(deadline[p]) /\ Unwrap(deadline[p]) > 0
                      THEN Some(Unwrap(deadline[p]) - 1) ELSE deadline[p]]
    /\ late' = late \cup {p \in Active : /\ Running(p)
                                         /\ deadline[p] = Some(1)
                                         /\ ShortOfMessages(p)}
    /\ UNCHANGED <<session, sm, simVars, state, current_round, watcher,
                   pc, blocking, results, inbox, closed, sink_broken, faults, sent>>

(***************************************************************************)
(* Transport faults, at most MaxFaults in a session.                       *)
(***************************************************************************)
Fault(kind, party) == [kind |-> kind, party |-> party]
MayFail(p) ==
    /\ mode = "async"
    /\ p \in Active
    /\ Running(p)
    /\ Cardinality(faults) < budget

\* A signature fragment is altered on its way to party p.
NetTamper(p) ==
    /\ MayFail(p)
    /\ \E item \in inbox[p] :
         /\ item.ok
         /\ item.msg.body.round = 2
         /\ inbox' = [inbox EXCEPT ![p] = (@ \ {item}) \cup
               {ItemMsg([item.msg EXCEPT !.body.sign_fragment = (@ + 1) % Q])}]
    /\ faults' = faults \cup {Fault("tamper", p)}
    /\ UNCHANGED <<session, sm, simVars, execVars, closed, sink_broken, sent, late>>

\* The incoming stream of party p yields an error.
NetRecvErr(p) ==
    /\ MayFail(p)
    /\ inbox' = [inbox EXCEPT ![p] = @ \cup {ItemErr}]
    /\ faults' = faults \cup {Fault("recv", p)}
    /\ UNCHANGED <<session, sm, simVars, execVars, closed, sink_broken, sent, late>>

\* The incoming stream of party p ends.
NetEof(p) ==
    /\ MayFail(p)
    /\ closed' = [closed EXCEPT ![p] = TRUE]
    /\ faults' = faults \cup {Fault("eof", p)}
    /\ UNCHANGED <<session, sm, simVars, execVars, inbox, sink_broken, sent, late>>

\* The outgoing sink of party p starts to fail.
NetSinkFail(p) ==
    /\ MayFail(p)
    /\ sink_broken' = [sink_broken EXCEPT ![p] = TRUE]
    /\ faults' = faults \cup {Fault("sink", p)}
    /\ UNCHANGED <<session, sm, simVars, execVars, inbox, closed, sent, late>>

AsyncStep(p) ==
    \/ Run(p)
    \/ ProceedJoin(p)
    \/ HandleIncoming(p)

NetFault(p) ==
    \/ NetTamper(p)
    \/ NetRecvErr(p)
    \/ NetEof(p)
    \/ NetSinkFail(p)

AsyncNext ==
    \/ \E p \in Parties : AsyncStep(p)
    \/ \E p \in Parties : NetFault(p)
    \/ Tick

(***************************************************************************)
(* The initial states.                                                     *)
(***************************************************************************)
\* The private keys and the nonce seeds the parties are given.
KeyChoices == {2, 3}
SeedChoices == {<<1, 4>>, <<5, 2>>}
MessageChoices == {6, 9}
BaseKey(p) == p + 1
BaseSeed(p) == <<p, p + 3>>
BaseMessage == 6

\* The orders in which k parties can be added to a simulation.
Orders(k) ==
    {s \in [1..k -> 1..k] : \A i, j \in 1..k : i # j => s[i] # s[j]}

\* The scripts of a session: at most one machine has one.
ScriptChoices(k) ==
    {sc \in [1..k -> Scripts] : Cardinality({p \in 1..k : sc[p] # "none"}) <= 1}
NoScripts(k) == [p \in 1..k |-> "none"]

IdleAsync ==
    /\ state = [p \in Active |-> TRUE]
    /\ deadline = [p \in Active |-> None]
    /\ current_round = [p \in Active |-> None]
    /\ watcher = [p \in Active |-> <<>>]
    /\ pc = [p \in Active |-> 0]
    /\ blocking = [p \in Active |-> FALSE]
    /\ results = [p \in Active |-> <<>>]
    /\ inbox = [p \in Active |-> {}]
    /\ closed = [p \in Active |-> FALSE]
    /\ sink_broken = [p \in Active |-> FALSE]
    /\ faults = {}
    /\ sent = [p \in Active |-> <<>>]
    /\ late = {}

IdleSim ==
    /\ given = IF mode = "sim" THEN sm ELSE <<>>
    /\ earlier = <<>>
    /\ msgs_pull = <<>>
    /\ msgs_pull_frozen = <<>>
    /\ sim_pc = SimPc("start", "call", 1)
    /\ sim_result = SimRunning

\* A simulation of honest parties: any keys, seeds, message and add order.
InitSimInputs ==
    /\ mode = "sim"
    /\ n \in 2..MaxN
    /\ silent = {}
    /\ budget = 0
    /\ \E key \in [Active -> KeyChoices], seed \in [Active -> SeedChoices],
          message \in MessageChoices :
         sm = [p \in Active |->
                 Musig2Instance(p, n, message, KeyPair(key[p]), seed[p], FALSE, "none", TRUE)]
    /\ parties \in Orders(n)
    /\ benchmark = [enabled |-> TRUE, measurements |-> <<>>]
    /\ IdleSim
    /\ IdleAsync

\* A simulation in which one machine has a script.
InitSimScripts ==
    /\ mode = "sim"
    /\ n \in 2..MaxN
    /\ silent = {}
    /\ budget = 0
    /\ \E sc \in ScriptChoices(n) :
         sm = [p \in Active |->
                 Musig2Instance(p, n, BaseMessage, KeyPair(BaseKey(p)), BaseSeed(p),
                                FALSE, sc[p], TRUE)]
    /\ parties \in Orders(n)
    /\ benchmark \in {[enabled |-> e, measurements |-> <<>>] : e \in BOOLEAN}
    /\ IdleSim
    /\ IdleAsync

\* The messages a machine can have queued besides those of the protocol:
\* any sender (a party, or an index that is none), broadcast or addressed
\* to one party.
Receivers(k) == {None} \cup {Some(i) : i \in 1..k}
QueuedChoices(k) ==
    {Msg(sender, receiver, MessageRound1(<<1, 1>>, BaseMessage, 1)) :
       sender \in 0..(k + 1), receiver \in Receivers(k)}

\* A simulation in which the machine of party 1 is added with a message in
\* its queue, and the machines classify the errors of handle_incoming as
\* critical, or as non-critical.
InitSimAddressed ==
    /\ mode = "sim"
    /\ n \in 2..MaxN
    /\ silent = {}
    /\ budget = 0
    /\ \E queued \in QueuedChoices(n), hcrit \in BOOLEAN :
         sm = [p \in Active |->
                 [Musig2Instance(p, n, BaseMessage, KeyPair(BaseKey(p)), BaseSeed(p),
                                 FALSE, "none", hcrit)
                    EXCEPT !.queue = IF p = 1 THEN <<queued>> ELSE <<>>]]
    /\ parties \in Orders(n)
    /\ benchmark = [enabled |-> FALSE, measurements |-> <<>>]
    /\ IdleSim
    /\ IdleAsync

\* The ways a session departs from the plain one (no deadline, every error
\* critical, no script, a transport without faults).
Deviations(timeout, hcrit, script, b) ==
    (IF timeout THEN 1 ELSE 0) + (IF hcrit THEN 0 ELSE 1)
    + (IF script = "none" THEN 0 ELSE 1) + (IF b = 0 THEN 0 ELSE 1)

\* An asynchronous session: one executor per party.  The session departs
\* from the plain one in at most one way.
InitAsync ==
    /\ mode = "async"
    /\ n \in 2..MaxN
    /\ silent = {}
    /\ \E timeout \in BOOLEAN, hcrit \in BOOLEAN, script \in Scripts, b \in 0..MaxFaults :
         /\ Deviations(timeout, hcrit, script, b) <= 1
         /\ budget = b
         /\ sm = [p \in Active |->
                    Musig2Instance(p, n, BaseMessage, KeyPair(BaseKey(p)), BaseSeed(p),
                                   timeout, IF p = 1 THEN script ELSE "none", hcrit)]
    /\ parties = [k \in Active |-> k]
    /\ benchmark = [enabled |-> FALSE, measurements |-> <<>>]
    /\ IdleSim
    /\ IdleAsync

Init == InitSimInputs \/ InitSimScripts \/ InitAsync

Next == SimNext \/ AsyncNext

Spec == Init /\ [][Next]_vars

\* The simulations of machines that depart from the protocol.
InitSim == InitSimScripts \/ InitSimAddressed
SpecSim == InitSim /\ [][SimNext]_vars

(***************************************************************************)
(* What a party got out of its session.                                    *)
(***************************************************************************)
\* The run of the party has returned (first call of run).
Returned(p) == results[p] # <<>>
FirstResult(p) == results[p][1]

\* The position of party p in Simulation.parties.
SimPosition(p) == CHOOSE k \in 1..Len(parties) : parties[k] = p

\* The party was handed a SignResult: by its run, or by Simulation::run.
HasOutput(p) ==
    IF mode = "sim" THEN sim_result.kind = "Ok"
    ELSE Returned(p) /\ FirstResult(p).kind = "Ok"

OutputOf(p) ==
    IF mode = "sim" THEN sim_result.outs[SimPosition(p)] ELSE FirstResult(p).out

\* The aggregate key the party computed in Round1.
AggregateKey(p) == sm[p].st.key_agg.X_tilde

\* The signature verifies against the aggregate key of party p.
VerifiesAt(p, sig) == verify(sig.s, x_coor(sig.r), AggregateKey(p), sig.commit)

\* Every party is honest and the transport is faultless.
Honest ==
    /\ budget = 0
    /\ \A p \in Active : sm[p].script = "none" /\ sm[p].errs = <<>>

\* No run ended in a panic of proceed.
NoPanic ==
    /\ sim_result.kind # "Panic"
    /\ \A p \in Active : \A k \in 1..Len(results[p]) : results[p][k].kind # "ProceedPanicked"

(***************************************************************************)
(* C1: with honest parties and consistent inputs the check of Round2 never *)
(* fails, every output verifies against the aggregate key and the commit,  *)
(* and all outputs carry the same r and the same commit, under the same    *)
(* aggregate key.                                                          *)
(***************************************************************************)
C1_HonestOutputsVerifyAndAgree ==
    Honest =>
      /\ NoPanic
      /\ \A p, q \in Active :
           HasOutput(p) /\ HasOutput(q) =>
             /\ VerifiesAt(p, OutputOf(p))
             /\ OutputOf(p).r = OutputOf(q).r
             /\ OutputOf(p).commit = OutputOf(q).commit
             /\ AggregateKey(p) = AggregateKey(q)

\* Three honest parties have all been handed their output.
C1_Witness ==
    /\ Honest
    /\ n = 3
    /\ \A p \in Active : HasOutput(p)

(***************************************************************************)
(* C2: a SignResult a party holds as output passed verify against the      *)
(* aggregate key and the commit its Round1 computed, whatever the          *)
(* transport did.                                                          *)
(***************************************************************************)
C2_OutputPassedVerify ==
    \A p \in Active :
      /\ HasOutput(p) =>
           /\ VerifiesAt(p, OutputOf(p))
           /\ OutputOf(p).r = sm[p].st.r
           /\ OutputOf(p).commit = sm[p].st.commit
      /\ (IsSome(sm[p].output) /\ Unwrap(sm[p].output).ok) =>
           VerifiesAt(p, Unwrap(sm[p].output).val)

\* One party holds an output while the check of another party failed on an
\* altered fragment.
C2_Witness ==
    /\ mode = "async"
    /\ \E p, q \in Active :
         /\ HasOutput(p)
         /\ Returned(q)
         /\ FirstResult(q).kind = "ProceedPanicked"

(***************************************************************************)
(* C3: when the aggregate does not verify in Round2, the run of the party  *)
(* returns Error::Proceed with a critical error.  (The code panics in the  *)
(* assert! instead, and run returns Error::ProceedPanicked.)               *)
(***************************************************************************)
\* The machine of party p is in Round2 with a batch that does not verify.
VerifyFails(p) ==
    /\ sm[p].round = "Round2"
    /\ ~StoreWantsMore(sm[p].store)
    /\ Round2Proceed(sm[p].st, StoreFinish(sm[p].store)).panic

C3_VerifyFailureIsCriticalError ==
    \A p \in Active :
      (mode = "async" /\ Returned(p) /\ VerifyFails(p)) =>
        /\ FirstResult(p).kind = "Proceed"
        /\ is_critical(FirstResult(p).err)

(***************************************************************************)
(* C4: once run has returned, whatever it returned, every later call of    *)
(* run returns Error::Exhausted and leaves the state machine, the incoming *)
(* stream, the sink and the watcher untouched.                             *)
(***************************************************************************)
C4_SingleUse ==
    [][\A p \in Active :
         (Returned(p) /\ results'[p] # results[p]) =>
           /\ results'[p] = Append(results[p], RetErr("Exhausted", NoErr))
           /\ sm'[p] = sm[p]
           /\ state'[p] = state[p]
           /\ inbox'[p] = inbox[p]
           /\ sent'[p] = sent[p]
           /\ watcher'[p] = watcher[p]]_vars

\* A second call of run after a run that returned an output, and one after
\* a run that returned an error.
C4_Witness ==
    \E p, q \in Active :
      /\ Len(results[p]) = 2 /\ results[p][1].kind = "Ok"
      /\ results[p][2].kind = "Exhausted"
      /\ Len(results[q]) = 2 /\ results[q][1].kind \notin {"Ok", "Exhausted"}
      /\ results[q][2].kind = "Exhausted"

(***************************************************************************)
(* C5 as stated: a party whose deadline elapsed while the store of its     *)
(* round was incomplete ends its run with Error::HandleIncomingTimeout     *)
(* (looked at for the parties whose machine returned no error).            *)
(***************************************************************************)
C5_ElapsedDeadlineEndsRun ==
    \A p \in Active :
      (p \in late /\ Returned(p) /\ sm[p].errs = <<>>) =>
        FirstResult(p).kind = "HandleIncomingTimeout"

(***************************************************************************)
(* C5 amended: run returns Error::HandleIncomingTimeout exactly when the   *)
(* wait for the next incoming item ends by the deadline, that is with the  *)
(* deadline elapsed, no item ready and the stream not ended; the error is  *)
(* the one round_timeout_reached gives, it names the missing parties, and  *)
(* the state machine is left as it was.                                    *)
(***************************************************************************)
\* The wait of handle_incoming can only end by the deadline.
DeadlineYield(p) ==
    /\ Running(p)
    /\ ~blocking[p]
    /\ inbox[p] = {}
    /\ ~closed[p]
    /\ Elapsed(p)

C5_TimeoutAtTheWait ==
    [][\A p \in Active :
         LET grew == Len(results'[p]) > Len(results[p])
             r == results'[p][Len(results'[p])]
         IN  /\ (grew /\ r.kind = "HandleIncomingTimeout") =>
                  /\ DeadlineYield(p)
                  /\ r.err = SM_round_timeout_reached(sm[p])
                  /\ r.err.missing = StoreBlame(sm[p].store)
                  /\ r.err.missing # {}
                  /\ sm'[p] = sm[p]
             /\ (DeadlineYield(p) /\ (grew \/ pc'[p] # pc[p])) =>
                  (grew /\ r.kind = "HandleIncomingTimeout")]_vars

\* A party of three has timed out with one of its two messages collected.
C5_Witness ==
    \E p \in Active :
      /\ n = 3
      /\ Returned(p)
      /\ FirstResult(p).kind = "HandleIncomingTimeout"
      /\ Cardinality(FirstResult(p).err.missing) = 1

(***************************************************************************)
(* The session of the negative scenario: three parties with a finite round *)
(* timeout, party 3 never runs.  Time passes, and a task that can go on    *)
(* (its blocking worker is done, or its wait for an item can end) does.    *)
(***************************************************************************)
InitC6 ==
    /\ mode = "async"
    /\ n = 3
    /\ silent = {3}
    /\ budget = 0
    /\ \E key \in [Active -> KeyChoices], message \in MessageChoices :
         sm = [p \in Active |->
                 Musig2Instance(p, n, message, KeyPair(key[p]), BaseSeed(p),
                                TRUE, "none", TRUE)]
    /\ parties = [k \in Active |-> k]
    /\ benchmark = [enabled |-> FALSE, measurements |-> <<>>]
    /\ IdleSim
    /\ IdleAsync

NextC6 ==
    \/ \E p \in Parties : AsyncStep(p)
    \/ Tick

SpecC6 ==
    /\ InitC6
    /\ [][NextC6]_vars
    /\ WF_vars(Tick)
    /\ \A p \in Parties : WF_vars(HandleIncoming(p)) /\ WF_vars(ProceedJoin(p))

(***************************************************************************)
(* C6: with party 3 silent, a run of party 1 or 2 that has started         *)
(* eventually returns, and what it returns is the timeout error naming     *)
(* party 3.                                                                *)
(***************************************************************************)
TimedOutOnParty3(p) ==
    /\ Returned(p)
    /\ FirstResult(p).kind = "HandleIncomingTimeout"
    /\ 3 \in FirstResult(p).err.missing

C6_SilentPartyTimesOut ==
    \A p \in {1, 2} :
      /\ [](Returned(p) => TimedOutOnParty3(p))
      /\ (n = 3 /\ silent = {3} /\ Running(p)) ~> TimedOutOnParty3(p)

\* Both parties timed out, one of them with the message of the other.
C6_Witness ==
    /\ silent = {3}
    /\ TimedOutOnParty3(1)
    /\ TimedOutOnParty3(2)
    /\ \E p \in {1, 2} : FirstResult(p).err.missing = {3}

(***************************************************************************)
(* C7: an error of handle_incoming or proceed ends the run, as             *)
(* Error::HandleIncoming or Error::Proceed carrying it, if and only if it  *)
(* is critical; the watcher is given every non-critical error once, in     *)
(* order, with the tag of the call that returned it, and the executor      *)
(* keeps the state machine.                                                *)
(***************************************************************************)
IsCriticalEntry(e) == is_critical(e.err)
IsNonCriticalEntry(e) == ~is_critical(e.err)

C7_AbortIffCritical ==
    mode = "async" =>
      \A p \in Active :
        LET errs == sm[p].errs
            crit == SelectSeq(errs, IsCriticalEntry)
        IN  /\ watcher[p] = SelectSeq(errs, IsNonCriticalEntry)
            /\ crit # <<>> =>
                 /\ Len(crit) = 1
                 /\ errs[Len(errs)] = crit[1]
                 /\ Returned(p)
                 /\ FirstResult(p) = RetErr(crit[1].when, crit[1].err)
            /\ (Returned(p) /\ FirstResult(p).kind \in {"Proceed", "HandleIncoming"}) =>
                 crit # <<>>
            /\ (crit = <<>> /\ Running(p) /\ ~blocking[p]) => state[p]

\* A run goes on, the machine kept, after a non-critical error of proceed,
\* and another after one of handle_incoming.
C7_Witness ==
    /\ mode = "async"
    /\ \E p \in Active :
         /\ Running(p)
         /\ state[p]
         /\ ~Returned(p)
         /\ \E k \in 1..Len(watcher[p]) : watcher[p][k].when = "Proceed"

(***************************************************************************)
(* C8: an Err item of the incoming stream ends the run with Error::Recv,   *)
(* the end of the stream with Error::RecvEof, a failed send with           *)
(* Error::Send; the item is not handled, and once the run has returned     *)
(* such an error nothing more is received, handled or sent.                *)
(***************************************************************************)
\* The messages the machine has produced so far: one per round it left.
Produced(s) ==
    CASE s.round = "Prepare" -> 0
      [] s.round = "Round1" -> 1
      [] OTHER -> 2

TransportErrors == {"Recv", "RecvEof", "Send"}

C8_TransportFailureIsFatal ==
    [][mode = "async" =>
       \A p \in Active :
         /\ (ItemErr \in inbox[p] /\ ItemErr \notin inbox'[p]) =>
              /\ results'[p] = Append(results[p], RetErr("Recv", Err("Recv", TRUE, {})))
              /\ sm'[p] = sm[p]
              /\ pc'[p] = 0
         /\ (Running(p) /\ ~blocking[p] /\ inbox[p] = {} /\ closed[p]
               /\ (pc'[p] # pc[p] \/ sm'[p] # sm[p] \/ results'[p] # results[p])) =>
              /\ results'[p] = Append(results[p], RetErr("RecvEof", Err("RecvEof", TRUE, {})))
              /\ sm'[p] = sm[p]
              /\ pc'[p] = 0
         /\ (Len(sent'[p]) < Produced(sm'[p])) =>
              /\ sink_broken[p]
              /\ results'[p] # <<>>
              /\ results'[p][1] = RetErr("Send", Err("Send", TRUE, {}))
              /\ pc'[p] = 0
         /\ (Returned(p) /\ FirstResult(p).kind \in TransportErrors) =>
              /\ sm'[p] = sm[p]
              /\ sent'[p] = sent[p]
              /\ inbox[p] \subseteq inbox'[p]]_vars

\* A run has ended on an Err item of its incoming stream.
C8_Witness ==
    \E p \in Active :
      /\ Returned(p)
      /\ FirstResult(p).kind = "Recv"
      /\ Len(results[p]) = 2

(***************************************************************************)
(* C9: when proceed panics on the blocking worker, run returns             *)
(* Error::ProceedPanicked (and returns it in no other case): the task goes *)
(* on to hand the error to its caller, the state machine is gone.          *)
(***************************************************************************)
C9_PanicIsReturned ==
    [][mode = "async" =>
       \A p \in Active :
         LET o == SM_proceed(sm[p])
             grew == Len(results'[p]) = Len(results[p]) + 1
             r == results'[p][Len(results'[p])]
         IN  /\ (blocking[p] /\ ~blocking'[p] /\ o.res.kind = "Panic") =>
                  /\ grew
                  /\ r = RetErr("ProceedPanicked", o.res.err)
                  /\ r.kind \notin {"Proceed", "HandleIncoming", "Finish",
                                    "BadStateMachine", "InternalErr"}
                  /\ pc'[p] = 0
                  /\ ~state'[p]
             /\ (grew /\ r.kind = "ProceedPanicked") =>
                  (blocking[p] /\ o.res.kind = "Panic")]_vars

\* A run has returned Error::ProceedPanicked.
C9_Witness ==
    \E p \in Active :
      /\ Len(results[p]) = 1
      /\ FirstResult(p).kind = "ProceedPanicked"
      /\ ~Running(p)

(***************************************************************************)
(* C10 as stated: in both executors a finished machine without output      *)
(* makes the run return the bad-state-machine error                        *)
(* (ProtocolFinishedButNoResult), and pick_output is only called on a      *)
(* finished machine.                                                       *)
(***************************************************************************)
FinishedWithoutOutput(p) ==
    SM_is_finished(sm[p]) /\ sm[p].script = "noOutput"

ProtocolFinishedButNoResult ==
    RetErr("BadStateMachine", Err("ProtocolFinishedButNoResult", TRUE, {}))

\* Simulation::run has returned after collecting from a machine without output.
SimMetNoOutput ==
    /\ mode = "sim"
    /\ sim_pc.phase = "done"
    /\ SimEveryoneIsFinished
    /\ \E p \in Active : FinishedWithoutOutput(p)

SimAtFinish == mode = "sim" /\ sim_pc.phase \in {"finish0", "finish"}

\* The parties of the session whose machine is finished.
FinishedParties == {p \in Active : SM_is_finished(sm[p])}

\* The machine of the party at position k holds an output.
SimHoldsOutput(k) == IsSome(sm[parties[k]].output)
SimHeldOutput(k) == Unwrap(sm[parties[k]].output)

C11_RunReturnsWhenAllFinished ==
    [][mode = "sim" =>
       LET positions == 1..Len(parties)
           failed == {k \in positions : ~SimHeldOutput(k).ok}
       IN  /\ (sim_result'.kind = "Ok" /\ sim_result.kind # "Ok") =>
                /\ SimAtFinish
                /\ FinishedParties = Active
                /\ Len(sim_result'.outs) = Len(parties)
                /\ \A k \in positions :
                     /\ SimHoldsOutput(k)
                     /\ SimHeldOutput(k).ok
                     /\ sim_result'.outs[k] = SimHeldOutput(k).val
           /\ (SimAtFinish /\ FinishedParties = Active
                 /\ (\A k \in positions : SimHoldsOutput(k)) /\ failed # {}) =>
                \E k \in failed :
                  /\ \A j \in failed : k <= j
                  /\ sim_result' = SimResult("Err", <<>>, SimHeldOutput(k).err)
           /\ (SimAtFinish /\ FinishedParties \notin {{}, Active}) =>
                /\ sim_result' = SimRunning
                /\ sim_pc' = SimPc("freeze", "call", 1)
                /\ sm' = sm]_vars

\* A run of three parties returned Ok after an iteration it ended with some
\* parties finished and one, held up by a non-critical error, not yet.
C11_Witness ==
    /\ mode = "sim"
    /\ n = 3
    /\ sim_result.kind = "Ok"
    /\ Len(sim_result.outs) = 3
    /\ \E p \in Active : sm[p].errs # <<>>

(***************************************************************************)
(* C12: in the simulation a message without receiver is handed to          *)
(* handle_incoming of every party but its sender, a message with receiver  *)
(* Some(i) to party i and to no other party; no party is handed a          *)
(* broadcast of its own.  (A party stops taking messages at its first      *)
(* critical error, which ends the run.)                                    *)
(***************************************************************************)
\* The addressing rule: the message is meant for party p.
MeantFor(msg, p) ==
    IF IsNone(msg.receiver) THEN msg.sender # p ELSE msg.receiver = Some(p)

\* The frozen messages meant for party p.
FrozenFor(p) ==
    {msgs_pull_frozen[k] : k \in {j \in 1..Len(msgs_pull_frozen) :
                                    MeantFor(msgs_pull_frozen[j], p)}}

C12_DeliveryFollowsAddressing ==
    [][mode = "sim" =>
       \A p \in Active :
         LET now == sm'[p].handled \ sm[p].handled
             mine == sim_pc.phase = "handle" /\ sim_pc.step = "call"
                     /\ parties[sim_pc.idx] = p
         IN  /\ now # {} => mine
             /\ now \subseteq FrozenFor(p)
             /\ \A msg \in now : ~(IsNone(msg.receiver) /\ msg.sender = p)
             /\ (mine /\ sim_result'.kind = "none") =>
                  FrozenFor(p) \subseteq sm'[p].handled]_vars

\* A message addressed to one party of three by another one has been handed
\* to it, and the iteration has ended; and a broadcast has been handed to
\* the two parties that did not send it.
C12_Witness ==
    /\ mode = "sim"
    /\ n = 3
    /\ sim_pc.phase = "proceed"
    /\ \E p \in Active : \E msg \in sm[p].handled :
         /\ msg.receiver = Some(p)
         /\ msg.sender # p
         /\ \A q \in Active \ {p} : msg \notin sm[q].handled
    /\ \E msg \in UNION {sm[p].handled : p \in Active} :
         /\ IsNone(msg.receiver)
         /\ \A q \in Active : msg \in sm[q].handled <=> q # msg.sender

(***************************************************************************)
(* C13: Simulation::run returns at the first critical error a party's      *)
(* proceed or handle_incoming returns, and returns that error; no party is *)
(* stepped after it.  A non-critical error does not end the run: the party *)
(* goes on to send_outgoing.  (The steps are those of one call of run.)    *)
(***************************************************************************)
\* The errors the machine of party p returns in the step.
NewErrs(p) == SubSeq(sm'[p].errs, Len(sm[p].errs) + 1, Len(sm'[p].errs))
NewCritical(p) == SelectSeq(NewErrs(p), IsCriticalEntry)

C13_FirstCriticalErrorEndsRun ==
    [][(mode = "sim" /\ earlier' = earlier) =>
       LET hit == {p \in Active : NewCritical(p) # <<>>}
           erred == {p \in Active : NewErrs(p) # <<>>}
       IN  /\ \A p \in hit :
                /\ hit = {p}
                /\ p = parties[sim_pc.idx]
                /\ Len(NewCritical(p)) = 1
                /\ sm'[p].errs[Len(sm'[p].errs)] = NewCritical(p)[1]
                /\ sim_result' = SimResult("Err", <<>>, NewCritical(p)[1].err)
                /\ sim_pc'.phase = "done"
           /\ (sim_result'.kind = "Err" /\ sim_result.kind = "none" /\ ~SimAtFinish) =>
                hit # {}
           /\ (erred # {} /\ hit = {}) =>
                /\ sim_result' = SimRunning
                /\ sim_pc' = [sim_pc EXCEPT !.step = "send"]
           /\ sim_result.kind # "none" => (sm' = sm /\ sim_pc' = sim_pc)]_vars

\* A run of three parties went on after a non-critical error of a party and
\* returned the critical error the same party met next; no other party
\* returned an error.
C13_Witness ==
    /\ mode = "sim"
    /\ n = 3
    /\ sim_result.kind = "Err"
    /\ \E p \in Active :
         /\ Len(sm[p].errs) = 2
         /\ ~is_critical(sm[p].errs[1].err)
         /\ is_critical(sm[p].errs[2].err)
         /\ sim_result.err = sm[p].errs[2].err
         /\ \A q \in Active \ {p} : sm[q].errs = <<>>

(***************************************************************************)
(* C14: two simulations of the same parties (same indices, key pairs,      *)
(* seeds and message, added in the same order) return the same: the same   *)
(* (r, s), and the same commit, at every party.                            *)
(***************************************************************************)
\* The simulation has returned, and a simulation of the same parties has
\* returned before.
SimReturnedAgain ==
    /\ mode = "sim"
    /\ sim_pc.phase = "done"
    /\ earlier # <<>>

Collecting(s) == s.round \in {"Round1", "Round2"}

\* A message of the round the machine collects, from any sender.
PushChoices(s) ==
    {Msg(sender, None,
         IF s.store_round = 1 THEN MessageRound1(<<1, 1>>, BaseMessage, 1)
         ELSE MessageRound2(0)) : sender \in 0..(s.party_n + 1)}

\* The store of machine s cannot take a message of this sender.
Refused(s, sender) ==
    \/ sender = s.party_i
    \/ sender \in StoreSenders(s.store)
    \/ sender \notin 1..s.party_n

C15_FailingPushChangesNothing ==
    \A p \in Active :
      Collecting(sm[p]) =>
        \A msg \in PushChoices(sm[p]) :
          LET s == sm[p]
              r == StorePush(s.store, msg)
              o == SM_handle_incoming(s, msg)
          IN  /\ Refused(s, msg.sender) => ~r.ok
              /\ ~r.ok =>
                   /\ r.store = s.store
                   /\ StoreWantsMore(r.store) = StoreWantsMore(s.store)
                   /\ o.res.kind = "Err"
                   /\ o.sm.store = s.store
                   /\ SM_wants_to_proceed(o.sm) = SM_wants_to_proceed(s)

\* The machine of a party has refused a message (of its own index, or of
\* an index outside 1..n, or of a sender it had a message of) and has gone
\* on to complete the store of the round.
C15_Witness ==
    \E p \in Active, kind \in {"self", "range", "present"} :
      /\ n = 3
      /\ sm[p].round = "Round1"
      /\ ~StoreWantsMore(sm[p].store)
      /\ Len(sm[p].errs) = 1
      /\ sm[p].errs[1].err.kind = "HandleMessage"
      /\ \E msg \in sm[p].handled :
           CASE kind = "self" -> msg.sender = p
             [] kind = "range" -> msg.sender \notin 1..n
             [] OTHER -> \E other \in sm[p].handled :
                           other # msg /\ other.sender = msg.sender

(***************************************************************************)
(* C16: whatever was pushed, the store of a round holds at most one        *)
(* message per sender; it is ready exactly when it holds n - 1 messages,   *)
(* one of every party but the own one; the batch of a ready store lists    *)
(* these messages in strictly ascending order of their sender; and a store *)
(* is extracted at most once: the round is left with the store ready, and  *)
(* the next round starts with a new, empty store.                          *)
(***************************************************************************)
\* The peers of the machine, and the k-th of them in ascending order.
Peers(s) == (1..s.party_n) \ {s.party_i}
Peer(s, k) == IF k < s.party_i THEN k ELSE k + 1

\* The message the store of the machine holds of this sender.
StoredOf(s, sender) == CHOOSE m \in s.store.msgs : m.sender = sender

StoreSound(s) ==
    /\ \A m1, m2 \in s.store.msgs : m1.sender = m2.sender => m1 = m2
    /\ StoreSenders(s.store) \subseteq Peers(s)
    /\ ~StoreWantsMore(s.store) <=>
         (Cardinality(s.store.msgs) = s.party_n - 1 /\ StoreSenders(s.store) = Peers(s))
    /\ ~StoreWantsMore(s.store) =>
         LET batch == StoreFinish(s.store)
         IN  /\ Len(batch) = s.party_n - 1
             /\ \A k \in 1..Len(batch) : batch[k] = StoredOf(s, Peer(s, k)).body
             /\ \A k \in 1..(Len(batch) - 1) : Peer(s, k) < Peer(s, k + 1)

C16_StoreReadyOrderedOnce ==
    [][\A p \in Active :
         /\ Collecting(sm'[p]) => StoreSound(sm'[p])
         /\ (Collecting(sm[p]) /\ SM_current_round(sm'[p]) > SM_current_round(sm[p])) =>
              /\ ~StoreWantsMore(sm[p].store)
              /\ SM_current_round(sm'[p]) = SM_current_round(sm[p]) + 1
              /\ sm'[p].store.msgs = {}
              /\ sm'[p].store_round # sm[p].store_round
         /\ (Collecting(sm[p]) /\ sm'[p].store.msgs # sm[p].store.msgs
               /\ SM_current_round(sm'[p]) = SM_current_round(sm[p])) =>
              /\ sm[p].store.msgs \subseteq sm'[p].store.msgs
              /\ StoreWantsMore(sm[p].store)]_vars

\* Party 1 of three, added last, was handed the message of party 3 before
\* the one of party 2, has left Round1 and has completed the store of
\* Round2.
C16_Witness ==
    /\ mode = "sim"
    /\ n = 3
    /\ parties = <<3, 2, 1>>
    /\ sm[1].round = "Round2"
    /\ ~StoreWantsMore(sm[1].store)
    /\ StoreSenders(sm[1].store) = {2, 3}

(***************************************************************************)
(* C17: a party emits exactly one message when it leaves Prepare, exactly  *)
(* one when it leaves Round1 and none when it leaves Round2; each of them  *)
(* has the index of the party as sender and no receiver; and a party that  *)
(* has left Round1 (Round2) was handed exactly n - 1 messages of Round1    *)
(* (Round2), one of each peer.                                             *)
(***************************************************************************)
\* The messages a proceed that left the machine as `after` added to the
\* queue of machine s.
Pushed(s, after) == SubSeq(after.queue, Len(s.queue) + 1, Len(after.queue))

\* The messages of a round the machine was handed.
HandledOf(s, round) == {m \in s.handled : m.body.round = round}

\* The machine was handed exactly one message of the round of each peer.
HandedOnePerPeer(s, round) ==
    /\ Cardinality(HandledOf(s, round)) = s.party_n - 1
    /\ {m.sender : m \in HandledOf(s, round)} = Peers(s)

\* The k-th message the party emitted is the broadcast of round k.
OwnBroadcast(msg, p, round) ==
    /\ msg.sender = p
    /\ IsNone(msg.receiver)
    /\ msg.body.round = round

C17_OneBroadcastPerRound ==
    \A p \in Active :
      LET s == sm[p]
      IN  /\ SM_wants_to_proceed(s) =>
               \A o \in {SM_proceed(s)} : \A pushed \in {Pushed(s, o.sm)} :
                 o.res.kind = "Ok" =>
                   /\ Len(pushed) = (IF s.round = "Round2" THEN 0 ELSE 1)
                   /\ \A k \in 1..Len(pushed) :
                        OwnBroadcast(pushed[k], p, SM_current_round(s) + 1)
          /\ (mode = "async" /\ budget = 0) =>
               /\ Len(sent[p]) + Len(s.queue) = Produced(s)
               /\ \A k \in 1..Len(sent[p]) : OwnBroadcast(sent[p][k], p, k)
          /\ s.round \in {"Round2", "Final"} => HandedOnePerPeer(s, 1)
          /\ s.round = "Final" => HandedOnePerPeer(s, 2)

\* Three honest parties, each run by its own executor, have their output;
\* each has sent its two broadcasts and was handed those of its peers.
C17_Witness ==
    /\ mode = "async"
    /\ n = 3
    /\ Honest
    /\ \A p \in Active :
         /\ HasOutput(p)
         /\ Len(sent[p]) = 2
         /\ Cardinality(sm[p].handled) = 4

(***************************************************************************)
(* C18: the list pks Round1::proceed builds from the batch of the n - 1    *)
(* peer messages in ascending sender order has length n, holds the own     *)
(* public key at the own index and, at the index of each peer, the public  *)
(* key the message of that peer carries; so parties that hold each other's *)
(* true messages build the same list.                                      *)
(***************************************************************************)
\* The machine is in Round1 with the input of Round1::proceed complete.
Round1Ready(s) == s.round = "Round1" /\ ~StoreWantsMore(s.store)

\* The list pks Round1::proceed of the machine builds.
PksOf(s) == BuildPks(StoreFinish(s.store), s.st.my_ind, s.st.key_pair.public_key)

\* The public keys of the parties of the session, by index.
TruePks == [j \in Active |-> sm[j].st.key_pair.public_key]

C18_PksInIndexOrder ==
    \A p \in Active :
      Round1Ready(sm[p]) =>
        \A pks \in {PksOf(sm[p])} :
          /\ Len(pks) = n
          /\ pks[p] = sm[p].st.key_pair.public_key
          /\ \A j \in Peers(sm[p]) : pks[j] = StoredOf(sm[p], j).body.pubkey
          /\ (\A j \in Peers(sm[p]) : StoredOf(sm[p], j).body.pubkey = TruePks[j]) =>
               pks = TruePks

\* The three honest parties of a simulation, first, middle and last index,
\* are about to call Round1::proceed, with three different public keys.
C18_Witness ==
    /\ mode = "sim"
    /\ n = 3
    /\ Honest
    /\ \A p \in Active : Round1Ready(sm[p]) /\ PksOf(sm[p]) = TruePks
    /\ Cardinality({TruePks[j] : j \in Active}) = 3

(***************************************************************************)
(* C19: in whatever order the messages are delivered, the store of a round *)
(* holds, and the batch a round's proceed consumes lists, only messages of *)
(* that round; a message of another round that is handed to the machine,   *)
(* such as a Round2 fragment that reaches a party still collecting Round1  *)
(* messages, does not enter the store and is not counted towards its       *)
(* readiness.                                                              *)
(***************************************************************************)
\* The messages of another round than the one machine s collects that the
\* incoming stream of party p has ready.
OffRound(p, s) ==
    {item.msg : item \in {i \in inbox[p] : i.ok /\ i.msg.body.round # SM_current_round(s)}}

C19_BatchIsOfTheRound ==
    \A p \in Active :
      Collecting(sm[p]) =>
        LET s == sm[p]
            batch == StoreFinish(s.store)
        IN  /\ \A m \in s.store.msgs : m.body.round = SM_current_round(s)
            /\ \A k \in 1..Len(batch) : batch[k].round = SM_current_round(s)
            /\ \A msg \in OffRound(p, s) :
                 \A o \in {SM_handle_incoming(s, msg)} :
                   /\ o.sm.store = s.store
                   /\ SM_wants_to_proceed(o.sm) = SM_wants_to_proceed(s)

\* A party of three, still collecting the Round1 messages with one of them
\* stored, was handed the Round2 fragment of a peer, and its run goes on.
C19_Witness ==
    \E p \in Active :
      /\ mode = "async"
      /\ n = 3
      /\ Running(p)
      /\ sm[p].round = "Round1"
      /\ Cardinality(sm[p].store.msgs) = 1
      /\ HandledOf(sm[p], 2) # {}

(***************************************************************************)
(* The sessions of the liveness claim: honest parties, each with its own   *)
(* executor, no deadline, a transport without faults that hands the        *)
(* messages over in any order.  run is called for every party, and a task  *)
(* that can go on (its blocking worker is done, or an item is ready on its *)
(* incoming stream) does.                                                  *)
(***************************************************************************)
InitC20 ==
    /\ mode = "async"
    /\ n \in 2..MaxN
    /\ silent = {}
    /\ budget = 0
    /\ \E hcrit \in BOOLEAN :
         sm = [p \in Active |->
                 Musig2Instance(p, n, BaseMessage, KeyPair(BaseKey(p)), BaseSeed(p),
                                FALSE, "none", hcrit)]
    /\ parties = [k \in Active |-> k]
    /\ benchmark = [enabled |-> FALSE, measurements |-> <<>>]
    /\ IdleSim
    /\ IdleAsync

NextC20 == \E p \in Parties : AsyncStep(p)

\* ProceedJoin(p) is enabled: the blocking worker of party p runs proceed.
Joining(p) == mode = "async" /\ p \in Active /\ Running(p) /\ blocking[p]

\* Weak fairness of the three steps of every party; the one of ProceedJoin
\* is written with its enabling condition spelled out.
SpecC20 ==
    /\ InitC20
    /\ [][NextC20]_vars
    /\ \A p \in Parties :
         /\ WF_vars(Run(p))
         /\ WF_vars(HandleIncoming(p))
         /\ ([]<>~Joining(p) \/ []<><<ProceedJoin(p)>>_vars)

\* The run of party p has returned Ok (or p is no party of the session).
ReturnedOk(p) ==
    p \in Active => (Returned(p) /\ FirstResult(p).kind = "Ok")

\* Some party was handed a message while it was in another round than the
\* one of the message: its machine returned an error.
HandedOffRound == \E q \in Active : sm[q].errs # <<>>

AwaitsItem(p) == Running(p) /\ ~blocking[p]

\* The deadline before is not later than the deadline after.
NotExtended(before, after) ==
    IF IsNone(before) THEN IsNone(after)
    ELSE IsSome(after) /\ Unwrap(after) <= Unwrap(before)

\* The run of party p returns in the step, and what it returns.
ReturnsNow(p) == Len(results'[p]) = Len(results[p]) + 1
ReturnedNow(p) == results'[p][Len(results'[p])]

C21_DeadlineFollowsRoundChange ==
    [][mode = "async" =>
       \A p \in Active :
         /\ current_round'[p] # current_round[p] =>
              /\ current_round'[p] = Some(SM_current_round(sm'[p]))
              /\ deadline'[p] = SM_round_timeout(sm'[p])
         /\ current_round'[p] = current_round[p] =>
              NotExtended(deadline[p], deadline'[p])
         /\ AwaitsItem(p)' =>
              /\ current_round'[p] = Some(SM_current_round(sm'[p]))
              /\ IsNone(SM_round_timeout(sm'[p])) => IsNone(deadline'[p])
         /\ (ReturnsNow(p) /\ ReturnedNow(p).kind = "HandleIncomingTimeout") =>
              /\ deadline[p] = Some(0)
              /\ IsSome(SM_round_timeout(sm[p]))]_vars

\* A party of three whose deadline has elapsed has one of the two Round1
\* messages it collects, and still awaits the other with the elapsed
\* deadline.
C21_Witness ==
    /\ mode = "async"
    /\ n = 3
    /\ \E p \in Active :
         /\ AwaitsItem(p)
         /\ sm[p].round = "Round1"
         /\ Cardinality(sm[p].store.msgs) = 1
         /\ deadline[p] = Some(0)
         /\ current_round[p] = Some(1)

(***************************************************************************)
(* C22: the step in which a run returns HandleIncomingTimeout leaves the   *)
(* state machine as it was: the executor still holds it, its round and the *)
(* round the executor recorded are unchanged, nothing is sent, and the     *)
(* error returned is what round_timeout_reached answers.  It stays so      *)
(* afterwards.                                                             *)
(***************************************************************************)
\* The first run of party p has returned HandleIncomingTimeout.
TimedOut(p) == Returned(p) /\ FirstResult(p).kind = "HandleIncomingTimeout"

C22_TimeoutLeavesMachine ==
    [][mode = "async" =>
       \A p \in Active :
         /\ (ReturnsNow(p) /\ ReturnedNow(p).kind = "HandleIncomingTimeout") =>
              /\ state[p] /\ state'[p]
              /\ sm'[p] = sm[p]
              /\ current_round'[p] = current_round[p]
              /\ current_round[p] = Some(SM_current_round(sm[p]))
              /\ sent'[p] = sent[p]
              /\ watcher'[p] = watcher[p]
              /\ ReturnedNow(p).err = SM_round_timeout_reached(sm[p])
         /\ TimedOut(p) =>
              /\ state'[p]
              /\ sm'[p] = sm[p]
              /\ current_round'[p] = current_round[p]]_vars

\* The run of a party of three returned HandleIncomingTimeout while its
\* machine collected Round1; the executor holds the machine, still in
\* Round1, and a second call of run has found the executor exhausted.
C22_Witness ==
    /\ mode = "async"
    /\ n = 3
    /\ \E p \in Active :
         /\ TimedOut(p)
         /\ Len(results[p]) = 2
         /\ results[p][2].kind = "Exhausted"
         /\ state[p]
         /\ sm[p].round = "Round1"
         /\ current_round[p] = Some(1)

(***************************************************************************)
(* C23: while proceed runs on the blocking worker the state slot of the    *)
(* executor is empty and the driving task does nothing: it receives no     *)
(* item, sends nothing, records no round, returns nothing, and the machine *)
(* is touched by proceed alone.  When the worker is done the machine as    *)
(* proceed left it is put back before anything is sent or awaited (the     *)
(* calls that follow in the step drain its queue and pick its output).     *)
(***************************************************************************)
\* The positions of run at which proceed_if_needed is called.
ProceedCalls == {i \in 1..Len(RunOps) : RunOps[i] = "proceed_if_needed"}

C23_MachineMovedToWorker ==
    [][mode = "async" =>
       \A p \in Active :
         /\ blocking[p] => (~state[p] /\ pc[p] \in ProceedCalls)
         /\ (blocking[p] /\ blocking'[p]) =>
              /\ sm'[p] = sm[p]
              /\ ~state'[p]
              /\ pc'[p] = pc[p]
              /\ sent'[p] = sent[p]
              /\ current_round'[p] = current_round[p]
              /\ watcher'[p] = watcher[p]
              /\ results'[p] = results[p]
         /\ (blocking[p] /\ ~blocking'[p]) =>
              /\ SM_wants_to_proceed(sm[p])
              /\ \A o \in {SM_proceed(sm[p])} :
                   /\ o.res.kind # "Panic" =>
                        [sm'[p] EXCEPT !.queue = o.sm.queue,
                                       !.output = o.sm.output] = o.sm
                   /\ (sent'[p] # sent[p] \/ AwaitsItem(p)') =>
                        /\ state'[p]
                        /\ o.res.kind = "Ok" \/ ~is_critical(o.res.err)
                        /\ sent'[p] = sent[p] \o o.sm.queue
                        /\ sm'[p].queue = <<>>
              /\ inbox'[p] = inbox[p]
         /\ AwaitsItem(p)' => state'[p]]_vars

\* Round1::proceed of a party of three runs on the blocking worker: the
\* state slot is empty, and a Round2 message that is ready on the stream of
\* the party is not received.
C23_Witness ==
    /\ mode = "async"
    /\ n = 3
    /\ \E p \in Active :
         /\ blocking[p]
         /\ ~state[p]
         /\ sm[p].round = "Round1"
         /\ \E item \in inbox[p] : item.ok /\ item.msg.body.round = 2

(***************************************************************************)
(* C24: what a machine has queued is handed over once, whole and in queue  *)
(* order, by the send_outgoing that follows the call that queued it, and   *)
(* the queue is empty afterwards.  In the simulation the queue of the      *)
(* party goes to the end of msgs_pull and all queues are empty when the    *)
(* round of calls is over.  In the async executor what proceed queued is   *)
(* given to the sink in the step in which the worker is done, and the      *)
(* queue is empty whenever the executor awaits an item; a sink that fails  *)
(* takes nothing: the queue is drained all the same and run returns        *)
(* Error::Send.                                                            *)
(***************************************************************************)
\* The blocking worker of party p is done in the step, and proceed has not
\* ended the run.
JoinsNow(p) == blocking[p] /\ ~blocking'[p]
ProceedGoesOn(o) ==
    o.res.kind = "Ok" \/ (o.res.kind = "Err" /\ ~is_critical(o.res.err))

\* What the sink of party p is due in the step: what its machine had
\* queued, and what proceed queues.
Due(p, o) == sm[p].queue \o Pushed(sm[p], o.sm)

AsyncDrainsQueue(p) ==
    /\ AwaitsItem(p)' => sm'[p].queue = <<>>
    /\ ~JoinsNow(p) => (sent'[p] = sent[p] /\ sm'[p].queue = sm[p].queue)
    /\ JoinsNow(p) =>
         \A o \in {SM_proceed(sm[p])} :
           IF ~ProceedGoesOn(o) THEN sent'[p] = sent[p]
           ELSE /\ sm'[p].queue = <<>>
                /\ IF sink_broken[p] /\ Due(p, o) # <<>>
                   THEN /\ sent'[p] = sent[p]
                        /\ ReturnsNow(p)
                        /\ ReturnedNow(p).kind = "Send"
                   ELSE /\ sent'[p] = sent[p] \o Due(p, o)
                        /\ \A q \in Active \ {p} : ~closed[q] =>
                             {ItemMsg(Due(p, o)[k]) : k \in 1..Len(Due(p, o))}
                               \subseteq inbox'[q]

SimDrainsQueue ==
    /\ \A p \in Active :
         IF sim_pc.step = "send" /\ p = parties[sim_pc.idx]
         THEN /\ msgs_pull' = msgs_pull \o sm[p].queue
              /\ sm'[p].queue = <<>>
         ELSE IF sim_pc.phase \in {"first", "proceed"} /\ sim_pc.step = "call"
                  /\ p = parties[sim_pc.idx]
         THEN /\ msgs_pull' = msgs_pull
              /\ sm'[p].queue # sm[p].queue =>
                   /\ SubSeq(sm'[p].queue, 1, Len(sm[p].queue)) = sm[p].queue
                   /\ sim_pc' = [sim_pc EXCEPT !.step = "send"]
         ELSE sm'[p].queue = sm[p].queue
    /\ sim_pc.phase = "freeze" =>
         /\ msgs_pull_frozen' = msgs_pull
         /\ msgs_pull' = <<>>
    /\ (sim_pc.phase \in {"finish0", "finish", "freeze"} /\ sim_pc.step = "call") =>
         \A p \in Active : sm[p].queue = <<>>

ProceedErred(p) ==
    /\ Len(sm'[p].errs) > Len(sm[p].errs)
    /\ sm'[p].errs[Len(sm'[p].errs)].when = "Proceed"

\* A proceed of the machine of party p panicked in the step.
ProceedPanicked(p) ==
    IF mode = "sim"
    THEN /\ sim_result.kind = "none"
         /\ sim_result'.kind = "Panic"
         /\ sim_pc.phase \in {"first", "proceed"}
         /\ p = parties[sim_pc.idx]
    ELSE ReturnsNow(p) /\ ReturnedNow(p).kind = "ProceedPanicked"

\* A proceed of the machine of party p has taken place in the step.
ProceedCalled(p) ==
    \/ sm'[p].round # sm[p].round
    \/ ProceedErred(p)
    \/ ProceedPanicked(p)

C25_ProceedOnlyWhenWanted ==
    [][earlier' = earlier =>
       \A p \in Active :
         /\ ProceedCalled(p) => SM_wants_to_proceed(sm[p])
         /\ blocking'[p] => SM_wants_to_proceed(sm'[p])
         /\ \A k \in 1..Len(sm'[p].errs) : sm'[p].errs[k].err.kind # "NothingToProceed"
         /\ (mode = "sim" /\ ProceedCalled(p)) =>
              /\ sim_pc.phase \in {"first", "proceed"}
              /\ sim_pc.step = "call"
              /\ p = parties[sim_pc.idx]
         /\ (mode = "async" /\ ProceedCalled(p)) => JoinsNow(p)]_vars

\* A party of three without deadline has handled one of the two Round1
\* messages: its machine did not want to proceed, proceed was not called,
\* and the executor awaits the next item.
C25_Witness ==
    /\ mode = "async"
    /\ n = 3
    /\ \E p \in Active :
         /\ AwaitsItem(p)
         /\ state[p]
         /\ ~sm[p].timeout
         /\ sm[p].round = "Round1"
         /\ Cardinality(sm[p].store.msgs) = 1
         /\ ~SM_wants_to_proceed(sm[p])
         /\ Len(sent[p]) = 1

(***************************************************************************)
(* C26: the simulation goes in lock step.  In an iteration the parties     *)
(* handle, in add order, the messages frozen at its beginning, each party  *)
(* all of those meant for it, none of which it was handed before; no       *)
(* machine proceeds before all of them have handled.  What is sent during  *)
(* the iteration is handed to nobody in it: it is what the next iteration  *)
(* freezes.  A run that returns Ok leaves no message behind.               *)
(***************************************************************************)
\* The party at position k of the add order.
SimParty(k) == parties[k]

\* The messages sent in the current iteration.
SimSentNow == {msgs_pull[k] : k \in 1..Len(msgs_pull)}

\* In the handling part of an iteration the parties before the current one
\* have handled the frozen messages meant for them, those after it have
\* handled none of them, and so has the current one until it is called.
HandlingInAddOrder ==
    sim_pc.phase = "handle" =>
      \A k \in 1..Len(parties) :
        /\ k < sim_pc.idx => FrozenFor(SimParty(k)) \subseteq sm[SimParty(k)].handled
        /\ (k = sim_pc.idx /\ sim_pc.step = "send") =>
             FrozenFor(SimParty(k)) \subseteq sm[SimParty(k)].handled
        /\ (k > sim_pc.idx \/ (k = sim_pc.idx /\ sim_pc.step = "call")) =>
             FrozenFor(SimParty(k)) \cap sm[SimParty(k)].handled = {}

\* When the parties proceed, and when the iteration is over, every party
\* has handled the frozen messages meant for it.
HandledBeforeProceed ==
    sim_pc.phase \in {"proceed", "finish"} =>
      \A p \in Active : FrozenFor(p) \subseteq sm[p].handled

\* What was sent in the current iteration has been handed to no party.
SentIsForNextIteration ==
    sim_pc.phase \in {"first", "finish0", "freeze", "handle", "proceed", "finish"} =>
      \A p \in Active : SimSentNow \cap sm[p].handled = {}

C26_LockStep ==
    [][(mode = "sim" /\ earlier' = earlier) =>
         /\ HandlingInAddOrder' /\ HandledBeforeProceed' /\ SentIsForNextIteration'
         /\ sim_pc.phase = "handle" =>
              /\ \A p \in Active : sm'[p].round = sm[p].round
              /\ msgs_pull_frozen' = msgs_pull_frozen
         /\ sim_pc.phase = "proceed" =>
              /\ \A p \in Active : sm'[p].handled = sm[p].handled
              /\ msgs_pull_frozen' = msgs_pull_frozen
         /\ sim_pc.phase = "freeze" =>
              /\ msgs_pull_frozen' = msgs_pull
              /\ msgs_pull' = <<>>
              /\ sim_pc'.phase = "handle"
         /\ sim_pc'.phase # sim_pc.phase =>
              <<sim_pc.phase, sim_pc'.phase>> \in
                 {<<"start", "first">>, <<"start", "done">>, <<"first", "finish0">>,
                  <<"first", "done">>, <<"finish0", "freeze">>, <<"finish0", "done">>,
                  <<"freeze", "handle">>, <<"handle", "proceed">>, <<"handle", "done">>,
                  <<"proceed", "finish">>, <<"proceed", "done">>,
                  <<"finish", "freeze">>, <<"finish", "done">>}
         /\ sim_result'.kind = "Ok" =>
              /\ msgs_pull' = <<>>
              /\ \A p \in Active : FrozenFor(p) \subseteq sm'[p].handled]_vars

\* In the second iteration of a simulation of three parties the first two
\* parties of the add order have handled the two Round2 messages meant for
\* each of them, the third has handled none, and no machine has proceeded
\* to the end.
C26_Witness ==
    /\ mode = "sim"
    /\ n = 3
    /\ sim_pc = SimPc("handle", "call", 3)
    /\ \A k \in 1..3 : sm[SimParty(k)].round = "Round2"
    /\ \A k \in 1..2 :
         /\ Cardinality(FrozenFor(SimParty(k))) = 2
         /\ FrozenFor(SimParty(k)) \subseteq sm[SimParty(k)].handled
    /\ FrozenFor(SimParty(3)) \cap sm[SimParty(3)].handled = {}
    /\ \A k \in 1..Len(msgs_pull_frozen) : msgs_pull_frozen[k].body.round = 2

(***************************************************************************)
(* The simulations of the termination claim: honest parties with the       *)
(* indices 1..n, the same n and the same message, any keys and any add     *)
(* order.  Simulation::run is a sequential program: it goes on as long as  *)
(* it has a step to make.                                                  *)
(***************************************************************************)
InitC27 ==
    /\ mode = "sim"
    /\ n \in 2..MaxN
    /\ silent = {}
    /\ budget = 0
    /\ \E key \in [Active -> KeyChoices] :
         sm = [p \in Active |->
                 Musig2Instance(p, n, BaseMessage, KeyPair(key[p]), BaseSeed(p),
                                FALSE, "none", TRUE)]
    /\ parties \in Orders(n)
    /\ benchmark = [enabled |-> FALSE, measurements |-> <<>>]
    /\ IdleSim
    /\ IdleAsync

\* SimNext is enabled: run has a call to make, or the simulation can be
\* set up once more.
SimGoesOn == mode = "sim" /\ (sim_pc.phase # "done" \/ Len(earlier) + 1 < MaxRuns)

\* Weak fairness of SimNext, with its enabling condition spelled out.
SpecC27 ==
    /\ InitC27
    /\ [][SimNext]_vars
    /\ ([]<>~SimGoesOn \/ []<><<SimNext>>_vars)

(***************************************************************************)
(* C27: a simulation of n >= 2 honest parties with consistent inputs       *)
(* returns, and what it returns is Ok with n outputs; whenever             *)
(* finish_if_possible is called either no party is finished or all are,    *)
(* and they all finish in the second iteration.                            *)
(***************************************************************************)
\* Simulation::run has returned Ok with one output per party.
SimReturnedOk == sim_result.kind = "Ok" /\ Len(sim_result.outs) = n

C27_SimulationTerminates ==
    /\ <>SimReturnedOk
    /\ [](sim_pc.phase = "done" => SimReturnedOk)
    /\ [](SimAtFinish => FinishedParties \in {{}, Active})
    /\ [](FinishedParties # {} =>
            \A k \in 1..Len(msgs_pull_frozen) : msgs_pull_frozen[k].body.round = 2)

\* A simulation of three parties added in another order than that of their
\* indices has returned Ok with three outputs.
C27_Witness ==
    /\ mode = "sim"
    /\ n = 3
    /\ parties = <<3, 1, 2>>
    /\ SimReturnedOk
    /\ FinishedParties = Active
    /\ msgs_pull = <<>>

(***************************************************************************)
(* C28 as stated: with benchmarks enabled every call of proceed the        *)
(* simulation makes adds one measurement, saved under the round the        *)
(* machine reported before the call.                                       *)
(***************************************************************************)
\* The measurement of a proceed of party p that began in the round the
\* machine of p is in.
MeasuredNow(p) == [round |-> SM_current_round(sm[p]), party |-> p]

C28_EveryProceedIsMeasured ==
    [][(mode = "sim" /\ earlier' = earlier /\ benchmark.enabled) =>
       \A p \in Active :
         ProceedCalled(p) =>
           benchmark'.measurements = Append(benchmark.measurements, MeasuredNow(p))]_vars

(***************************************************************************)
(* C28 amended: with benchmarks enabled a call of proceed adds one         *)
(* measurement, saved under the round the machine reported before the      *)
(* call, exactly when the machine is in another round after the call; a    *)
(* call that returns an error and leaves the round as it was, or panics,   *)
(* adds none.  With benchmarks disabled nothing is measured.               *)
(***************************************************************************)
C28_RoundChangesAreMeasured ==
    [][(mode = "sim" /\ earlier' = earlier) =>
         /\ benchmark'.enabled = benchmark.enabled
         /\ ~benchmark.enabled => benchmark'.measurements = <<>>
         /\ benchmark.enabled =>
              \A p \in Active :
                /\ sm'[p].round # sm[p].round =>
                     benchmark'.measurements =
                        Append(benchmark.measurements, MeasuredNow(p))
                /\ (ProceedCalled(p) /\ sm'[p].round = sm[p].round) =>
                     benchmark'.measurements = benchmark.measurements
         /\ (\A p \in Active : sm'[p].round = sm[p].round) =>
              benchmark'.measurements = benchmark.measurements]_vars

\* The measurements of party p.
MeasurementsOf(p) ==
    SelectSeq(benchmark.measurements, LAMBDA m : m.party = p)

\* A simulation with benchmarks enabled has returned Ok; the proceed of one
\* party returned a non-critical error once, in Round2, and the party has
\* three measurements, those of the rounds 0, 1 and 2, for its four calls.
C28_Witness ==
    /\ mode = "sim"
    /\ benchmark.enabled
    /\ sim_result.kind = "Ok"
    /\ \E p \in Active :
         /\ Len(sm[p].errs) = 1
         /\ sm[p].errs[1].when = "Proceed"
         /\ MeasurementsOf(p) = <<[round |-> 0, party |-> p],
                                  [round |-> 1, party |-> p],
                                  [round |-> 2, party |-> p]>>

(***************************************************************************)
(* C29: the index and the key pair of a party are the same in every round  *)
(* state it goes through, and what it sends is made of public values: the  *)
(* Round1 message of the two nonce points, the message to sign and the     *)
(* public key, every other field at its zero value; the Round2 message of  *)
(* the signature fragment alone.  No message has a field for the private   *)
(* scalar.                                                                 *)
(***************************************************************************)
\* The fields of a message body.
BodyFields == {"round", "ephemeral_keys", "message", "pubkey", "sign_fragment"}

\* The body is a Round1 message of party s: nonce points, the message the
\* party signs and its public key.
CarriesRound1(body, s, points) ==
    /\ DOMAIN body = BodyFields
    /\ body = MessageRound1(points, s.st.message, s.st.key_pair.public_key)

\* The body is a Round2 message: a signature fragment and nothing else.
CarriesRound2(body, fragment) ==
    /\ DOMAIN body = BodyFields
    /\ body = MessageRound2(fragment)

C29_KeyPairKeptAndNotSent ==
    [][earlier' = earlier =>
       \A p \in Active :
         LET s == sm[p]
         IN  /\ sm'[p].st.my_ind = s.st.my_ind
             /\ sm'[p].st.key_pair = s.st.key_pair
             /\ s.st.my_ind = p
             /\ s.st.key_pair = KeyPair(s.st.key_pair.private_key)
             /\ SM_wants_to_proceed(s) =>
                  \A o \in {SM_proceed(s)} : \A pushed \in {Pushed(s, o.sm)} :
                    o.res.kind = "Ok" =>
                      /\ o.sm.st.my_ind = s.st.my_ind
                      /\ o.sm.st.key_pair = s.st.key_pair
                      /\ s.round = "Prepare" =>
                           /\ Len(pushed) = 1
                           /\ CarriesRound1(pushed[1].body, s, o.sm.st.state1.R)
                           /\ o.sm.st.state1.R =
                                <<BasePoint(o.sm.st.state1.r[1]),
                                  BasePoint(o.sm.st.state1.r[2])>>
                      /\ s.round = "Round1" =>
                           /\ Len(pushed) = 1
                           /\ CarriesRound2(pushed[1].body, o.sm.st.state2.s_i)
                      /\ s.round = "Round2" => pushed = <<>>
             /\ \A k \in 1..Len(sent[p]) :
                  /\ sent[p][k].sender = p
                  /\ sent[p][k].body.round = 1 =>
                       sent[p][k].body.pubkey = s.st.key_pair.public_key
                  /\ sent[p][k].body.round = 2 =>
                       CarriesRound2(sent[p][k].body, sent[p][k].body.sign_fragment)]_vars

\* A party whose private scalar is 3 is in Round2 with the key pair it was
\* given, having sent a Round1 message with the public key 8 and a Round2
\* message.
C29_Witness ==
    /\ mode = "async"
    /\ \E p \in Active :
         /\ sm[p].round = "Round2"
         /\ sm[p].st.key_pair = KeyPair(3)
         /\ sm[p].st.my_ind = p
         /\ Len(sent[p]) = 2
         /\ sent[p][1].body.pubkey = 8
         /\ sent[p][2].body.round = 2

(***************************************************************************)
(* C30: the first run of an executor built with new never returns          *)
(* InternalErr(MissingState).  The slot is empty only while proceed runs   *)
(* on the blocking worker, or after a run that proceed ended with a panic  *)
(* or a critical error; wherever run reads the slot (at the await of an    *)
(* incoming item, and in the calls around it) it is filled.  A later call  *)
(* returns Exhausted and touches neither the slot nor the machine.         *)
(***************************************************************************)
\* The first run of the party has returned because of proceed.
EndedByProceed(p) ==
    /\ ~Running(p)
    /\ results[p] # <<>>
    /\ results[p][1].kind \in {"Proceed", "ProceedPanicked"}

\* The step is a call of run by a party that has run before.
LaterRunNow(p) ==
    /\ ~Running(p)
    /\ results[p] # <<>>
    /\ Len(results'[p]) = Len(results[p]) + 1

C30_SlotFilledWhenRead ==
    [][mode = "async" =>
       \A p \in Active :
         /\ \A k \in 1..Len(results'[p]) :
              /\ results'[p][k].kind # "InternalErr"
              /\ results'[p][k] # MissingState
              /\ k >= 2 => results'[p][k].kind = "Exhausted"
         /\ AwaitsItem(p) => state[p]
         /\ ~state[p] => (Running(p) /\ blocking[p]) \/ EndedByProceed(p)
         /\ (results[p] = <<>> /\ ~Running(p)) =>
              (state[p] /\ IsNone(current_round[p]))
         /\ (results[p] # <<>> \/ Running(p)) => IsSome(current_round[p])
         /\ LaterRunNow(p) =>
              /\ state'[p] = state[p]
              /\ sm'[p] = sm[p]
              /\ ~Running(p)']_vars

\* A party whose proceed panicked has lost its machine; it called run again
\* and got Exhausted, the slot still empty.
C30_Witness ==
    /\ mode = "async"
    /\ \E p \in Active :
         /\ Len(results[p]) = 2
         /\ results[p][1].kind = "ProceedPanicked"
         /\ results[p][2].kind = "Exhausted"
         /\ ~state[p]
         /\ \E q \in Active \ {p} :
              /\ state[q]
              /\ sm[q].round \in {"Round2", "Final"}

====
